---- MODULE Spec2Model ----
(***************************************************************************)
(* A model of the crypto.news extraction engine of crypto_news_scraper.py: *)
(* get_latest_crypto_news (listing fetch, article-unit locator cascade,    *)
(* per-unit loop with de-duplication, body fetch, thumbnail merge, image   *)
(* download), get_article_content and extract_article_images.              *)
(*                                                                         *)
(* Strings that the code only compares or copies are TLA+ strings.  A URL  *)
(* string is kept in the form urllib.parse splits it into (scheme, netloc, *)
(* path.split('/')), so that urljoin is computed and not assumed.  A text  *)
(* is the sequence of its lines.  Python's None is the record None.        *)
(***************************************************************************)
EXTENDS Integers, Sequences, FiniteSets, TLC

(* ------------------------------ bounds -------------------------------- *)

\* The longest listing page (number of candidate elements) explored.
MaxUnits == 3

\* The most img elements of one article page explored.
MaxImgs == 2

(* --------------------------- Python values ---------------------------- *)

None == [none |-> TRUE]

\* The exception object a raising call is modelled to return.
Raised(name) == [exc |-> name]

IsRaised(v) == "exc" \in DOMAIN v

Last(s) == s[Len(s)]

Front(s) == SubSeq(s, 1, Len(s) - 1)

RECURSIVE Concat(_)
\* The concatenation of a sequence of sequences.
Concat(ss) == IF ss = <<>> THEN <<>> ELSE Head(ss) \o Concat(Tail(ss))

\* s[:n] of a Python list.
Take(s, n) == SubSeq(s, 1, IF n < Len(s) THEN n ELSE Len(s))

(* ----------------------------- URL strings ---------------------------- *)

\* A URL string as urlsplit reads it; path is path.split('/'), so "" is
\* <<"">>, "/" is <<"", "">>, "/a" is <<"", "a">> and "a" is <<"a">>.
Url(scheme, netloc, path) == [scheme |-> scheme, netloc |-> netloc, path |-> path]

EmptyStr == Url("", "", <<"">>)

\* bool(s) for an attribute value that may be absent.
Truthy(s) == s # None /\ s # EmptyStr

\* s.startswith(('http://', 'https://'))
StartsWithHttp(s) == s.scheme \in {"http", "https"} /\ s.netloc # ""

\* urllib.parse.uses_relative, as far as the explored strings go.
UsesRelative == {"", "http", "https", "ftp", "file"}

\* urlsplit raises ValueError("Invalid IPv6 URL") on a netloc with an
\* unmatched bracket.
UrlparseRaises(s) == s.netloc \in {"[bad"}

RECURSIVE ResolveDots(_, _)
\* urljoin's loop over the segments: '..' pops, '.' is dropped.
ResolveDots(segments, resolved) ==
    IF segments = <<>> THEN resolved
    ELSE LET seg == Head(segments) IN
         ResolveDots(Tail(segments),
                     IF seg = ".." THEN (IF resolved = <<>> THEN <<>> ELSE Front(resolved))
                     ELSE IF seg = "." THEN resolved
                     ELSE Append(resolved, seg))

\* segments[1:-1] = filter(None, segments[1:-1])
FilterMiddle(segments) ==
    IF Len(segments) < 3 THEN segments
    ELSE <<Head(segments)>>
         \o SelectSeq(SubSeq(segments, 2, Len(segments) - 1), LAMBDA x : x # "")
         \o <<Last(segments)>>

\* urllib.parse.urljoin(base, url), without query and fragment.
Urljoin(base, url) ==
    IF base = EmptyStr THEN url
    ELSE IF url = EmptyStr THEN base
    ELSE IF UrlparseRaises(base) \/ UrlparseRaises(url) THEN Raised("ValueError")
    ELSE LET scheme == IF url.scheme = "" THEN base.scheme ELSE url.scheme IN
         IF scheme # base.scheme \/ scheme \notin UsesRelative THEN url
         ELSE IF url.netloc # "" THEN Url(scheme, url.netloc, url.path)
         ELSE IF url.path = <<"">> THEN Url(scheme, base.netloc, base.path)
         ELSE LET base_parts == IF Last(base.path) # "" THEN Front(base.path)
                                ELSE base.path
                  segments == IF Len(url.path) > 1 /\ Head(url.path) = ""
                              THEN url.path
                              ELSE FilterMiddle(base_parts \o url.path)
                  dots == ResolveDots(segments, <<>>)
                  resolved_path == IF Last(segments) \in {".", ".."}
                                   THEN Append(dots, "") ELSE dots
                  joined == IF resolved_path \in {<<>>, <<"">>} THEN <<"", "">>
                            ELSE IF Head(resolved_path) # ""
                                 THEN <<"">> \o resolved_path
                            ELSE resolved_path
              IN Url(scheme, base.netloc, joined)

\* Resolve joining the base's string and the candidate's, whatever the
\* candidate: the candidate's scheme and host end up in the path.
ResolveByConcatenation(base, candidate) ==
    Url(base.scheme, base.netloc,
        Front(base.path)
        \o (IF candidate.scheme = "" THEN <<>> ELSE <<candidate.scheme, "">>)
        \o (IF candidate.netloc = "" THEN <<>> ELSE <<candidate.netloc>>)
        \o (IF Head(candidate.path) = "" /\ Len(candidate.path) > 1
            THEN Tail(candidate.path) ELSE candidate.path))

\* The resolution the extractor applies to every link and image source:
\* unchanged when it starts with http:// or https://, else urljoin.
Resolve(base, candidate) ==
    IF StartsWithHttp(candidate) THEN candidate ELSE Urljoin(base, candidate)

\* The listing page's address.
url == Url("https", "crypto.news", <<"", "">>)

(* ------------------------- small string tables ------------------------ *)

\* str.strip() on the explored one-line strings.
Strip(s) ==
    CASE s = " " -> ""
      [] s = " chart " -> "chart"
      [] s = " First paragraph. " -> "First paragraph."
      [] s = " Bitcoin rallies " -> "Bitcoin rallies"
      [] s = " Markets " -> "Markets"
      [] OTHER -> s

\* The attribute values int() accepts.
NumericStrings == {"50", "99", "100", "640"}

\* int(s) for s in NumericStrings.
IntOf(s) ==
    CASE s = "50" -> 50
      [] s = "99" -> 99
      [] s = "100" -> 100
      [] s = "640" -> 640

skip_classes == {"icon", "avatar", "logo", "thumbnail", "thumb", "badge"}

\* The lower-cased words that occur in str(img.get('class', '')), among
\* those the explored class values are made of.
WordsIn(class) ==
    CASE class = "Site-Logo" -> {"site", "logo"}
      [] class = "post-thumbnail" -> {"post", "thumbnail", "thumb"}
      [] class = "user-avatar" -> {"user", "avatar"}
      [] class = "hero" -> {"hero"}
      [] OTHER -> {}

\* The cls of skip_classes with cls in str(img.get('class', '')).lower().
SkipWordsIn(class) == WordsIn(class) \cap skip_classes

(* ----------------------- extract_article_images ----------------------- *)

\* A call's normal return value, as opposed to Raised(...).
Returned(v) == [value |-> v]

\* img.get(attr) of the first attribute, in the code's priority order,
\* whose value is truthy; None when there is none.
FirstSource(img) ==
    IF Truthy(img.src) THEN img.src
    ELSE IF Truthy(img.data_src) THEN img.data_src
    ELSE IF Truthy(img.data_lazy_src) THEN img.data_lazy_src
    ELSE IF Truthy(img.data_original) THEN img.data_original
    ELSE None

\* ImgCandidate with data-src taken before src.
ImgCandidateLazyFirst(img, base_url) ==
    IF img.width # "" /\ img.width \notin NumericStrings
    THEN Raised("invalid literal for int() with base 10")
    ELSE IF img.width # "" /\ IntOf(img.width) < 100 THEN None
    ELSE IF img.height # "" /\ img.height \notin NumericStrings
    THEN Raised("invalid literal for int() with base 10")
    ELSE IF img.height # "" /\ IntOf(img.height) < 100 THEN None
    ELSE IF SkipWordsIn(img.class) # {} THEN None
    ELSE LET img_url == IF Truthy(img.data_src) THEN img.data_src ELSE FirstSource(img) IN
         IF img_url = None THEN None
         ELSE LET resolved == Resolve(base_url, img_url) IN
              IF IsRaised(resolved) THEN Raised("Invalid IPv6 URL")
              ELSE [url |-> resolved, alt |-> Strip(img.alt), title |-> Strip(img.title)]

\* One pass of the loop over img_tags: None when the element is skipped
\* (continue), Raised(...) when int() or urljoin raises, else the dict
\* that is appended.  An absent width, height, class, alt or title is "".
ImgCandidate(img, base_url) ==
    IF img.width # "" /\ img.width \notin NumericStrings
    THEN Raised("invalid literal for int() with base 10")
    ELSE IF img.width # "" /\ IntOf(img.width) < 100 THEN None
    ELSE IF img.height # "" /\ img.height \notin NumericStrings
    THEN Raised("invalid literal for int() with base 10")
    ELSE IF img.height # "" /\ IntOf(img.height) < 100 THEN None
    ELSE IF SkipWordsIn(img.class) # {} THEN None
    ELSE LET img_url == FirstSource(img) IN
         IF img_url = None THEN None
         ELSE LET resolved == Resolve(base_url, img_url) IN
              IF IsRaised(resolved) THEN Raised("Invalid IPv6 URL")
              ELSE [url |-> resolved, alt |-> Strip(img.alt), title |-> Strip(img.title)]

\* StyleCandidate with the class filter of the img loop.
StyleCandidateFiltered(element, base_url) ==
    IF ~element.background_image \/ element.url = None THEN None
    ELSE IF SkipWordsIn(element.class) # {} THEN None
    ELSE LET resolved == Resolve(base_url, element.url) IN
         IF IsRaised(resolved) THEN Raised("Invalid IPv6 URL")
         ELSE [url |-> resolved, alt |-> "", title |-> ""]

\* One pass of the loop over the elements with a style attribute:
\* style is [background_image: whether 'background-image' occurs in it,
\* url: the regular expression's group 1, None without a match].
StyleCandidate(element, base_url) ==
    IF ~element.background_image \/ element.url = None THEN None
    ELSE LET resolved == Resolve(base_url, element.url) IN
         IF IsRaised(resolved) THEN Raised("Invalid IPv6 URL")
         ELSE [url |-> resolved, alt |-> "", title |-> ""]

\* The dicts a loop appends, in order, given the outcome of each pass.
Appended(outcomes) ==
    SelectSeq(outcomes, LAMBDA o : o # None /\ ~IsRaised(o))

\* The exception of the first pass that raises, None when none does.
FirstRaised(outcomes) ==
    LET raising == {k \in 1..Len(outcomes) : IsRaised(outcomes[k])} IN
    IF raising = {} THEN None
    ELSE outcomes[CHOOSE k \in raising : \A m \in raising : k <= m]

\* The images list once both loops have run, or the exception that ended
\* them.
ImagesOrRaised(raised, from_imgs, from_styles) ==
    IF raised # None THEN raised
    ELSE Returned(Appended(from_imgs) \o Appended(from_styles))

\* The two loops of extract_article_images over the outcomes of their
\* passes: the img loop first, then the style loop.
BothLoops(from_imgs, from_styles) ==
    ImagesOrRaised(FirstRaised(from_imgs \o from_styles), from_imgs, from_styles)

\* extract_article_images(container, base_url); container is
\* [imgs: container.find_all('img'), styled: the elements that have a
\* style attribute], each in document order.
ExtractArticleImages(container, base_url) ==
    BothLoops([k \in 1..Len(container.imgs) |->
                  ImgCandidate(container.imgs[k], base_url)],
              [k \in 1..Len(container.styled) |->
                  StyleCandidate(container.styled[k], base_url)])

(* ------------------------- get_article_content ------------------------ *)

FailureMarker == <<"Could not extract article content.">>

\* f"Error fetching article content: {str(e)}"
ErrorMsg(e) ==
    CASE e.exc = "404 Client Error"
           -> <<"Error fetching article content: 404 Client Error">>
      [] e.exc = "Connection aborted"
           -> <<"Error fetching article content: Connection aborted">>
      [] e.exc = "invalid literal for int() with base 10"
           -> <<"Error fetching article content: invalid literal for int() with base 10">>
      [] e.exc = "Invalid IPv6 URL"
           -> <<"Error fetching article content: Invalid IPv6 URL">>

\* The number of entries of content_selectors.
NumSelectors == 13

\* SelectorContainer with the document's order before the selectors': the
\* first element that any selector matches and that has the text.
SelectorContainerDocumentOrder(blocks) ==
    LET hits == {k \in 1..Len(blocks) : blocks[k].sel > 0 /\ blocks[k].textlen > 200}
    IN IF hits = {} THEN None
       ELSE blocks[CHOOSE k \in hits : \A m \in hits : k <= m]

\* The container the selector loop ends with: the first block, by selector
\* then by document order, with more than 200 characters of text.  A block
\* is an element of the page after the noise elements are decomposed; sel
\* is the index in content_selectors of the first selector that matches it
\* (0: none does), textlen is len(container.text.strip()).
SelectorContainer(blocks) ==
    LET hits == {<<s, k>> \in (1..NumSelectors) \X (1..Len(blocks)) :
                    blocks[k].sel = s /\ blocks[k].textlen > 200}
    IN IF hits = {} THEN None
       ELSE LET first == CHOOSE h \in hits : \A g \in hits :
                            h[1] < g[1] \/ (h[1] = g[1] /\ h[2] <= g[2])
            IN blocks[first[2]]

\* Approach 2: the first div or section with more than 500 characters of
\* text and more than 3 paragraphs.
LargeTextContainer(blocks) ==
    LET hits == {k \in 1..Len(blocks) :
                    /\ blocks[k].name \in {"div", "section"}
                    /\ blocks[k].textlen > 500
                    /\ Len(blocks[k].paras) > 3}
    IN IF hits = {} THEN None
       ELSE blocks[CHOOSE k \in hits : \A m \in hits : k <= m]

\* line.strip() of every line, the blank ones dropped.
Normalize(lines) ==
    SelectSeq([k \in 1..Len(lines) |-> Strip(lines[k])], LAMBDA l : l # "")

RECURSIVE JoinBlank(_)
\* "\n\n".join(texts), as lines.
JoinBlank(texts) ==
    IF Len(texts) <= 1 THEN texts
    ELSE <<Head(texts), "">> \o JoinBlank(Tail(texts))

\* The body text of a container: its paragraphs joined, or its whole text.
ContainerText(container) ==
    LET paragraphs == container.paras
        stripped == [k \in 1..Len(paragraphs) |-> Strip(paragraphs[k])]
        content == IF Len(paragraphs) > 1
                   THEN JoinBlank(SelectSeq(stripped, LAMBDA p : p # ""))
                   ELSE container.text
    IN Normalize(content)

\* The elements of a region that container.select('.share, ..., .ads')
\* does not decompose.
NotAds(elements) == SelectSeq(elements, LAMBDA e : e.region # "ads")

\* The except clause of lines 98-100.
Failed(e, extract_images) ==
    IF extract_images THEN [content |-> ErrorMsg(e), images |-> <<>>]
    ELSE ErrorMsg(e)

\* WithImages keeping the body text when extract_article_images raises.
WithImagesSwallowed(content, images) ==
    IF IsRaised(images) THEN [content |-> content, images |-> <<>>]
    ELSE [content |-> content, images |-> images.value]

\* The dict returned when images were asked for, given what
\* extract_article_images returned or raised.
WithImages(content, images) ==
    IF IsRaised(images) THEN Failed(images, TRUE)
    ELSE [content |-> content, images |-> images.value]

\* The value returned at lines 73 and 96: the images come from region.
Extracted(content, region, article_url, extract_images) ==
    IF extract_images
    THEN WithImages(content, ExtractArticleImages(region, article_url))
    ELSE content

\* Lines 46-62: approach 2 runs when approach 1 found nothing.
ContentContainer(by_selector, blocks) ==
    IF by_selector = None THEN LargeTextContainer(blocks) ELSE by_selector

\* The img and styled elements of the document that is left after the
\* noise elements are decomposed.
Soup(blocks) ==
    [imgs |-> Concat([k \in 1..Len(blocks) |-> blocks[k].imgs]),
     styled |-> Concat([k \in 1..Len(blocks) |-> blocks[k].styled])]

\* The container after lines 76-77.
Cleaned(content_container) ==
    [imgs |-> NotAds(content_container.imgs),
     styled |-> NotAds(content_container.styled)]

\* Lines 64-96, given the container found (None: none).
FromContainer(content_container, blocks, article_url, extract_images) ==
    IF content_container = None
    THEN Extracted(FailureMarker, Soup(blocks), article_url, extract_images)
    ELSE Extracted(ContainerText(content_container), Cleaned(content_container),
                   article_url, extract_images)

\* Lines 37-96 on the blocks that are left after the noise is removed.
FromBlocks(blocks, article_url, extract_images) ==
    FromContainer(ContentContainer(SelectorContainer(blocks), blocks),
                  blocks, article_url, extract_images)

\* get_article_content(article_url, headers, extract_images).  page is what
\* requests.get answers for article_url: [status, blocks], where a block
\* with noise = TRUE is decomposed by the first loop.
GetArticleContent(page, article_url, extract_images) ==
    IF page.status # "ok" THEN Failed(Raised(page.status), extract_images)
    ELSE FromBlocks(SelectSeq(page.blocks, LAMBDA b : ~b.noise),
                    article_url, extract_images)

(* ------------------- state of one get_latest_crypto_news -------------- *)

VARIABLES
    max_articles,     \* the max_articles argument
    extract_images,   \* the extract_images argument
    download_images,  \* the download_images argument
    site,             \* what the network answers: [listing, pages, images]
    pc,               \* where the call stands
    articles,         \* the located units, cut to max_articles
    i,                \* the loop's position in articles, from 1
    processed_urls,   \* the URLs seen by this call
    news_items,       \* the records appended so far
    cur,              \* the locals of the unit being processed
    ret,              \* the value returned, None while the call runs
    network,          \* the requests sent so far, in order, each with the
                      \* number of the unit it was sent for (0: none)
    first_ret,        \* the value an earlier call on the same site returned
    saved_images,     \* the files download_image has opened for writing
    step,             \* where the main block stands after the call
    files,            \* the output files opened for writing so far
    console,          \* what display_news printed, by kind of line
    returned,         \* what each downstream function called so far returned
    container,        \* the container of an extract_article_images call
    base_url,         \* the base URL of that call, or of a resolution
    images,           \* what that call returned or raised, None before
    resolutions,      \* a candidate string and its successive resolutions
    reading,          \* a get_article_content call on its own: the page
                      \* the network answers, its address, extract_images
    extracted,        \* what that call returned, None before
    job,              \* a process_image call: its script, its arguments and
                      \* what the image file and the remote model answer
    loaded,           \* whether that call has loaded its image
    attempt,          \* the attempts that call has started
    slept,            \* the times that call has slept
    processed,        \* what that call returned, None while it runs
    stored            \* what the files of that call hold: image_path, the
                      \* backup and the file in output_dir

args == <<max_articles, extract_images, download_images, site, first_ret>>

\* The state of get_latest_crypto_news.
scraper == <<args, pc, articles, i, processed_urls, news_items, cur, ret, network,
             saved_images>>

\* The state of the main block's calls of display_news and the writers.
downstream == <<step, files, console, returned>>

\* The state of a call of extract_article_images, of a URL resolution or
\* of get_article_content on its own.
helpers == <<container, base_url, images, resolutions, reading, extracted>>

\* The state of a process_image call of the image collaborator.
collaborator == <<job, loaded, attempt, slept, processed, stored>>

\* What get_latest_crypto_news leaves alone.
others == <<downstream, helpers, collaborator>>

vars == <<scraper, others>>

NoLocals == [thumbnail_img |-> None, article_url |-> None, content |-> <<>>,
             result |-> None, article_images |-> <<>>, local_images |-> <<>>,
             j |-> 0]

(* ------------------------ article-unit locator ------------------------ *)

\* The units of the listing's elements of the given kinds, in document order.
UnitsOfKind(page, kinds) ==
    LET hits == SelectSeq(page.elements, LAMBDA e : e.kind \in kinds)
    IN [k \in 1..Len(hits) |-> hits[k].unit]

\* latest_section.find_next('div').find_all('article'): page.latest says
\* whether an h2 with 'Latest' exists ("none") and whether a div follows it
\* ("no_div", "div"); "latest_article" is an article inside that div.
LatestSection(page) ==
    IF page.latest = "div" THEN UnitsOfKind(page, {"latest_article"}) ELSE <<>>

\* soup.find_all('article')
AllArticles(page) == UnitsOfKind(page, {"latest_article", "article"})

\* The div and li elements with a news/post/article/item/story class that
\* hold a link and an h3, an h4 or some text.
NewsSections(page) ==
    SelectSeq(UnitsOfKind(page, {"news_section"}),
              LAMBDA section : section.a # None
                               /\ (section.heading \in {"h3", "h4"} \/ section.text # ""))

\* The div, li and article descendants of the stories containers that hold
\* a link, then the parents of the 'Read more' links not yet collected
\* ("story_read_more": an element that is both, collected once).
StoriesAndReadMore(page) ==
    SelectSeq(UnitsOfKind(page, {"story_item", "story_read_more"}),
              LAMBDA item : item.a # None)
    \o UnitsOfKind(page, {"read_more"})

\* LocateArticles with the last strategy running unconditionally.
LocateArticlesNoStop(page) ==
    LET first == LatestSection(page)
        second == IF first = <<>> THEN AllArticles(page) ELSE first
        third == IF second = <<>> THEN NewsSections(page) ELSE second
    IN third \o StoriesAndReadMore(page)

\* The cascade of lines 256-295: each strategy runs only while articles is
\* still empty.
LocateArticles(page) ==
    LET first == LatestSection(page)
        second == IF first = <<>> THEN AllArticles(page) ELSE first
        third == IF second = <<>> THEN NewsSections(page) ELSE second
    IN IF third = <<>> THEN StoriesAndReadMore(page) ELSE third

\* Truncate with the slice one too long.
TruncateOneMore(units, limit) == IF limit > 0 THEN Take(units, limit + 1) ELSE units

\* articles[:max_articles] when max_articles > 0.
Truncate(units, limit) == IF limit > 0 THEN Take(units, limit) ELSE units

(* ---------------------- listing-item field extractor ------------------ *)

\* s.endswith(name) for the file names the code tests, on the explored
\* strings: the last path segment decides.
EndsWith(s, names) == Last(s.path) \in names

\* Thumbnail reading src alone, whatever data-src holds.
ThumbnailSrcOnly(article) ==
    LET img_element == article.img IN
    IF img_element = None THEN None
    ELSE IF img_element.src = None THEN None
    ELSE IF img_element.src # EmptyStr
            /\ ~EndsWith(img_element.src, {"lazy-placeholder.png", "blank.gif"})
    THEN LET resolved == Resolve(url, img_element.src) IN
         IF IsRaised(resolved) THEN Raised("Invalid IPv6 URL")
         ELSE [url |-> resolved, alt |-> img_element.alt,
               title |-> img_element.title, is_thumbnail |-> TRUE]
    ELSE None

\* Lines 319-335: the thumbnail dict of a unit, None without one,
\* Raised(...) when urljoin raises.  img.src = None: no src attribute.
Thumbnail(article) ==
    LET img_element == article.img IN
    IF img_element = None THEN None
    ELSE IF img_element.src = None THEN None
    ELSE LET thumbnail_url ==
                 IF EndsWith(img_element.src, {"lazy-placeholder.png"})
                    /\ img_element.data_src # None
                 THEN img_element.data_src ELSE img_element.src
         IN IF thumbnail_url # EmptyStr
               /\ ~EndsWith(thumbnail_url, {"lazy-placeholder.png", "blank.gif"})
            THEN LET resolved == Resolve(url, thumbnail_url) IN
                 IF IsRaised(resolved) THEN Raised("Invalid IPv6 URL")
                 ELSE [url |-> resolved, alt |-> img_element.alt,
                       title |-> img_element.title, is_thumbnail |-> TRUE]
            ELSE None

\* Lines 338-352: the unit's URL, None without a link with an href,
\* Raised(...) when urljoin raises.
ArticleUrl(article) ==
    IF article.a = None THEN None
    ELSE IF article.a.href = None THEN None
    ELSE LET resolved == Resolve(url, article.a.href) IN
         IF IsRaised(resolved) THEN Raised("Invalid IPv6 URL") ELSE resolved

\* IsDuplicate with the membership test looking at the wrong collection.
IsDuplicateOfNothing(article_url, seen) == article_url \in {}

\* Line 348: whether the unit is skipped as a duplicate.
IsDuplicate(article_url, seen) == article_url \in seen

\* Lines 424-426: the thumbnail goes first unless its URL is among the
\* article's images.
MergeThumbnail(thumbnail_img, article_images) ==
    IF thumbnail_img # None
       /\ \A k \in 1..Len(article_images) : article_images[k].url # thumbnail_img.url
    THEN <<thumbnail_img>> \o article_images
    ELSE article_images

\* str.lower() on the explored texts.
Lower(s) ==
    CASE s = "Unknown time" -> "unknown time"
      [] s = "About 3 Hours Ago" -> "about 3 hours ago"
      [] s = "Bitcoin fell for a second day." -> "bitcoin fell for a second day."
      [] s = "Prices rose sharply overnight." -> "prices rose sharply overnight."
      [] OTHER -> s

\* part in whole, for explored texts in lower case.
Contains(whole, part) ==
    \/ part = ""
    \/ part = whole
    \/ <<whole, part>> \in {<<"about 3 hours ago", "3 hours ago">>,
                            <<"about 3 hours ago", "hours ago">>,
                            <<"3 hours ago", "hours ago">>}

\* any(time_word in text for time_word in ['ago', 'hour', 'minute',
\* 'second', 'day', 'week']), for explored texts in lower case.
HasTimeWord(text) ==
    text \in {"about 3 hours ago", "3 hours ago", "hours ago",
              "bitcoin fell for a second day."}

\* Lines 354-369: the title.  heading is the name of the unit's first h2,
\* h3 or h4 ("": none) and heading_text its text; title_link is the text of
\* the first a with a title or heading class, None without one.
Title(article) ==
    IF article.heading # "" THEN Strip(article.heading_text)
    ELSE IF article.title_link # None THEN Strip(article.title_link.text)
    ELSE IF article.a # None /\ Strip(article.a.text) # ""
            /\ Len(Strip(article.a.text)) > 10
    THEN Strip(article.a.text)
    ELSE "No title"

\* The span of the loop of lines 378-383 at which it breaks, 0 when it
\* runs to the end.
TimeLikeSpan(spans) ==
    LET hits == {k \in 1..Len(spans) :
                    /\ HasTimeWord(Lower(Strip(spans[k].text)))
                    /\ Len(Lower(Strip(spans[k].text))) < 20}
    IN IF hits = {} THEN 0 ELSE CHOOSE k \in hits : \A m \in hits : k <= m

\* Lines 371-383: the timestamp.  time is the unit's first time element or,
\* without one, its first element with a datetime attribute (None: none);
\* spans is article.find_all(['span', 'div', 'p']).
Timestamp(article) ==
    IF article.time # None THEN Strip(article.time.text)
    ELSE IF TimeLikeSpan(article.spans) = 0 THEN "Unknown time"
    ELSE Strip(article.spans[TimeLikeSpan(article.spans)].text)

\* Lines 385-391: the tags, from the texts of the links with a category,
\* tag or topic class.
Tags(article) ==
    SelectSeq([k \in 1..Len(article.tag_links) |-> Strip(article.tag_links[k])],
              LAMBDA tag : tag # "" /\ Len(tag) < 30)

\* The first element of a sequence, None when it is empty.
First(elements) == IF elements = <<>> THEN None ELSE Head(elements)

\* The class values, among the explored, in which 'summary', 'excerpt' or
\* 'content' occurs.
SummaryClasses == {"post-content", "excerpt", "entry-summary"}

\* Lines 396-401: the summary the first p gives, with the guard against
\* the timestamp.
ParagraphSummary(summary_element, timestamp) ==
    IF summary_element # None /\ Strip(summary_element.text) # ""
       /\ Len(Strip(summary_element.text)) > 10
    THEN IF \/ Contains(Lower(timestamp), Lower(Strip(summary_element.text)))
            \/ Contains(Lower(Strip(summary_element.text)), Lower(timestamp))
         THEN ""
         ELSE Strip(summary_element.text)
    ELSE ""

\* Lines 404-407: the summary the first div with a summary class gives.
DivSummary(summary_div) ==
    IF summary_div # None /\ Strip(summary_div.text) # ""
       /\ Len(Strip(summary_div.text)) > 10
    THEN Strip(summary_div.text)
    ELSE ""

\* Lines 393-407: the summary.
Summary(article) ==
    LET summary == ParagraphSummary(
                       First(SelectSeq(article.spans, LAMBDA e : e.name = "p")),
                       Timestamp(article))
    IN IF summary = ""
       THEN DivSummary(First(SelectSeq(article.spans,
                                       LAMBDA e : e.name = "div"
                                                  /\ e.class \in SummaryClasses)))
       ELSE summary

(* ------------------------------ download_image ------------------------ *)

\* os.path.join(folder, filename) of line 205, for the folder and the file
\* name of lines 433 and 439.
LocalPath(unit_no, image_no, img_url) ==
    [folder |-> unit_no, image |-> image_no, basename |-> Last(img_url.path)]

\* What requests.get and the response give that makes download_image
\* raise: an error status or a timeout before the headers are read, or a
\* connection that breaks while the body of an image is read.
DownloadErrors == {"404 Client Error", "Read timed out", "image/png, broken stream"}

\* content_type.startswith('image/'), for the explored Content-Type
\* values of a response whose body can be read.
IsImageType(content_type) == content_type \in {"image/png", "image/jpeg"}

\* DownloadImage without the test of the Content-Type.
DownloadImageAnyType(answer, full_path) ==
    IF answer \in DownloadErrors THEN None
    ELSE full_path

\* download_image(img_url, folder, filename): answer is what requests.get
\* gives for img_url, an error or the Content-Type of a 2xx response.
DownloadImage(answer, full_path) ==
    IF answer \in DownloadErrors THEN None
    ELSE IF ~IsImageType(answer) THEN None
    ELSE full_path

\* The files a download_image call opens for writing (line 217): the
\* target, once the response is accepted, also when writing then fails.
OpenedFiles(answer, full_path) ==
    IF IsImageType(answer) \/ answer = "image/png, broken stream"
    THEN {full_path} ELSE {}

\* Lines 443-449: the local_images entry of a downloaded image.
LocalImage(img, local_path) ==
    [url |-> img.url, local_path |-> local_path, alt |-> img.alt, title |-> img.title,
     is_thumbnail |-> IF "is_thumbnail" \in DOMAIN img THEN img.is_thumbnail ELSE FALSE]

(* ------------------------------- actions ------------------------------ *)

\* The except clauses of lines 471-474.
ReturnError(message) ==
    /\ ret' = [error |-> message]
    /\ pc' = "done"

\* Connect without raise_for_status(): a failed listing fetch is parsed.
ConnectUnchecked ==
    /\ pc = "start"
    /\ network' = Append(network, [op |-> "listing", url |-> url, unit |-> 0])
    /\ pc' = "parsed"
    /\ UNCHANGED <<articles, i, processed_urls, news_items, cur, ret>>
    /\ UNCHANGED args
    /\ UNCHANGED saved_images
    /\ UNCHANGED others

\* Lines 244-254: the listing page is requested.
Connect ==
    /\ pc = "start"
    /\ network' = Append(network, [op |-> "listing", url |-> url, unit |-> 0])
    /\ IF site.listing.status # "ok"
       THEN /\ ReturnError("Request error")
            /\ UNCHANGED <<articles, i, processed_urls, news_items, cur>>
       ELSE /\ pc' = "parsed"
            /\ UNCHANGED <<articles, i, processed_urls, news_items, cur, ret>>
    /\ UNCHANGED args
    /\ UNCHANGED saved_images
    /\ UNCHANGED others

\* Locate with the empty cascade reported as an error.
LocateEmptyIsError ==
    /\ pc = "parsed"
    /\ articles' = LocateArticles(site.listing)
    /\ IF articles' = <<>>
       THEN /\ ret' = [error |-> "No articles found"]
            /\ pc' = "done"
       ELSE /\ pc' = "located"
            /\ UNCHANGED ret
    /\ UNCHANGED <<i, processed_urls, news_items, cur, network>>
    /\ UNCHANGED args
    /\ UNCHANGED saved_images
    /\ UNCHANGED others

\* Lines 256-303: the cascade, and the empty list when it finds nothing.
Locate ==
    /\ pc = "parsed"
    /\ articles' = LocateArticles(site.listing)
    /\ IF articles' = <<>>
       THEN /\ ret' = Returned(<<>>)
            /\ pc' = "done"
       ELSE /\ pc' = "located"
            /\ UNCHANGED ret
    /\ UNCHANGED <<i, processed_urls, news_items, cur, network>>
    /\ UNCHANGED args
    /\ UNCHANGED saved_images
    /\ UNCHANGED others

\* Lines 308-314: the empty result list and seen set, and the limit.
Limit ==
    /\ pc = "located"
    /\ news_items' = <<>>
    /\ processed_urls' = {}
    /\ articles' = Truncate(articles, max_articles)
    /\ i' = 1
    /\ pc' = "loop"
    /\ UNCHANGED <<cur, ret, network>>
    /\ UNCHANGED args
    /\ UNCHANGED saved_images
    /\ UNCHANGED others

\* Lines 317-352 for a unit that is kept: thumbnail, URL, seen set.
ExtractUnit ==
    /\ pc = "loop"
    /\ i <= Len(articles)
    /\ LET thumbnail_img == Thumbnail(articles[i])
           article_url == ArticleUrl(articles[i])
       IN /\ ~IsRaised(thumbnail_img)
          /\ ~IsRaised(article_url)
          /\ ~IsDuplicate(article_url, processed_urls)
          /\ processed_urls' = IF article_url = None THEN processed_urls
                               ELSE processed_urls \cup {article_url}
          /\ cur' = [NoLocals EXCEPT !.thumbnail_img = thumbnail_img,
                                     !.article_url = article_url]
    /\ pc' = "fetch"
    /\ UNCHANGED <<articles, i, news_items, ret, network>>
    /\ UNCHANGED args
    /\ UNCHANGED saved_images
    /\ UNCHANGED others

\* Lines 347-349: continue on a URL already seen.
SkipDuplicate ==
    /\ pc = "loop"
    /\ i <= Len(articles)
    /\ LET thumbnail_img == Thumbnail(articles[i])
           article_url == ArticleUrl(articles[i])
       IN /\ ~IsRaised(thumbnail_img)
          /\ ~IsRaised(article_url)
          /\ IsDuplicate(article_url, processed_urls)
    /\ i' = i + 1
    /\ UNCHANGED <<pc, articles, processed_urls, news_items, cur, ret, network>>
    /\ UNCHANGED args
    /\ UNCHANGED saved_images
    /\ UNCHANGED others

\* urljoin raising on the unit's image source or href (lines 329, 343, 345)
\* ends the call in the last except clause.
UnitRaises ==
    /\ pc = "loop"
    /\ i <= Len(articles)
    /\ LET thumbnail_img == Thumbnail(articles[i])
           article_url == ArticleUrl(articles[i])
       IN ~(~IsRaised(thumbnail_img) /\ ~IsRaised(article_url))
    /\ ReturnError("An error occurred: Invalid IPv6 URL")
    /\ UNCHANGED <<articles, i, processed_urls, news_items, cur, network>>
    /\ UNCHANGED args
    /\ UNCHANGED saved_images
    /\ UNCHANGED others

\* Lines 420-426: the locals after get_article_content returned result.
WithResult(locals, result) ==
    [locals EXCEPT !.result = result,
                   !.content = result.content,
                   !.article_images = MergeThumbnail(locals.thumbnail_img, result.images)]

\* FetchContent requesting the next unit's page as well, ahead of time.
FetchContentAhead ==
    /\ pc = "fetch"
    /\ IF cur.article_url = None
       THEN /\ UNCHANGED <<cur, network>>
       ELSE /\ network' = network \o <<[op |-> "article", url |-> cur.article_url,
                                         unit |-> i],
                                        [op |-> "article", url |-> cur.article_url,
                                         unit |-> i + 1]>>
            /\ IF extract_images
               THEN cur' = WithResult(cur, GetArticleContent(site.pages[cur.article_url],
                                                             cur.article_url, TRUE))
               ELSE cur' = [cur EXCEPT
                              !.content = GetArticleContent(site.pages[cur.article_url],
                                                            cur.article_url, FALSE)]
    /\ pc' = "download"
    /\ UNCHANGED <<articles, i, processed_urls, news_items, ret>>
    /\ UNCHANGED args
    /\ UNCHANGED saved_images
    /\ UNCHANGED others

\* Lines 409-429: the article page is requested and read, the thumbnail
\* merged in; nothing is requested for a unit without a URL.
FetchContent ==
    /\ pc = "fetch"
    /\ IF cur.article_url = None
       THEN /\ UNCHANGED <<cur, network>>
       ELSE /\ network' = Append(network, [op |-> "article", url |-> cur.article_url,
                                              unit |-> i])
            /\ IF extract_images
               THEN cur' = WithResult(cur, GetArticleContent(site.pages[cur.article_url],
                                                             cur.article_url, TRUE))
               ELSE cur' = [cur EXCEPT
                              !.content = GetArticleContent(site.pages[cur.article_url],
                                                            cur.article_url, FALSE)]
    /\ pc' = "download"
    /\ UNCHANGED <<articles, i, processed_urls, news_items, ret>>
    /\ UNCHANGED args
    /\ UNCHANGED saved_images
    /\ UNCHANGED others

\* Whether the loop of line 437 has an image left.
MoreToDownload ==
    download_images /\ cur.j < Len(cur.article_images)

\* WithDownload putting the new entry in front of the earlier ones.
WithDownloadInFront(locals, img, local_path) ==
    [locals EXCEPT !.j = locals.j + 1,
                   !.local_images =
                       IF local_path = None THEN locals.local_images
                       ELSE <<LocalImage(img, local_path)>> \o locals.local_images]

\* Lines 440-449: the locals after download_image returned local_path.
WithDownload(locals, img, local_path) ==
    [locals EXCEPT !.j = locals.j + 1,
                   !.local_images =
                       IF local_path = None THEN locals.local_images
                       ELSE Append(locals.local_images, LocalImage(img, local_path))]

\* Lines 437-449, one pass: the file name, the download, the entry.  The
\* urlparse of line 439 is outside download_image's try.
DownloadNext ==
    /\ pc = "download"
    /\ MoreToDownload
    /\ LET img == cur.article_images[cur.j + 1] IN
       IF UrlparseRaises(img.url)
       THEN /\ ReturnError("An error occurred: Invalid IPv6 URL")
            /\ UNCHANGED <<cur, network, saved_images>>
       ELSE /\ network' = Append(network, [op |-> "image", url |-> img.url, unit |-> i])
            /\ cur' = WithDownload(cur, img,
                                   DownloadImage(site.images[img.url],
                                                 LocalPath(i, cur.j + 1, img.url)))
            /\ saved_images' = saved_images
                                  \cup OpenedFiles(site.images[img.url],
                                                   LocalPath(i, cur.j + 1, img.url))
            /\ UNCHANGED <<pc, ret>>
    /\ UNCHANGED <<articles, i, processed_urls, news_items>>
    /\ UNCHANGED args
    /\ UNCHANGED others

\* NewsItem with the thumbnail kept when no images were asked for.
NewsItemKeepsThumbnail ==
    [title |-> Title(articles[i]),
     url |-> cur.article_url,
     timestamp |-> Timestamp(articles[i]),
     tags |-> Tags(articles[i]),
     summary |-> Summary(articles[i]),
     content |-> cur.content,
     images |-> IF extract_images THEN cur.article_images
                ELSE IF cur.thumbnail_img # None THEN <<cur.thumbnail_img>> ELSE <<>>,
     local_images |-> IF download_images THEN cur.local_images ELSE <<>>]

\* Lines 451-464: the record of the unit, but for scraped_at, the time
\* of the clock.
NewsItem ==
    [title |-> Title(articles[i]),
     url |-> cur.article_url,
     timestamp |-> Timestamp(articles[i]),
     tags |-> Tags(articles[i]),
     summary |-> Summary(articles[i]),
     content |-> cur.content,
     images |-> IF extract_images THEN cur.article_images ELSE <<>>,
     local_images |-> IF download_images THEN cur.local_images ELSE <<>>]

\* AppendItem putting the record in front of the earlier ones.
AppendItemInFront ==
    /\ pc = "download"
    /\ ~MoreToDownload
    /\ news_items' = <<NewsItem>> \o news_items
    /\ i' = i + 1
    /\ pc' = "loop"
    /\ UNCHANGED <<articles, processed_urls, cur, ret, network>>
    /\ UNCHANGED args
    /\ UNCHANGED saved_images
    /\ UNCHANGED others

\* Lines 451-464: the record is appended and the loop goes on.
AppendItem ==
    /\ pc = "download"
    /\ ~MoreToDownload
    /\ news_items' = Append(news_items, NewsItem)
    /\ i' = i + 1
    /\ pc' = "loop"
    /\ UNCHANGED <<articles, processed_urls, cur, ret, network>>
    /\ UNCHANGED args
    /\ UNCHANGED saved_images
    /\ UNCHANGED others

\* Line 469: return news_items.
ReturnItems ==
    /\ pc = "loop"
    /\ i > Len(articles)
    /\ ret' = Returned(news_items)
    /\ pc' = "done"
    /\ UNCHANGED <<articles, i, processed_urls, news_items, cur, network>>
    /\ UNCHANGED args
    /\ UNCHANGED saved_images
    /\ UNCHANGED others

Next ==
    \/ Connect
    \/ Locate
    \/ Limit
    \/ ExtractUnit
    \/ SkipDuplicate
    \/ UnitRaises
    \/ FetchContent
    \/ DownloadNext
    \/ AppendItem
    \/ ReturnItems

\* A caller that, after a call with a positive limit has returned, calls
\* again with max_articles = 0 while the site answers as before.
Rerun ==
    /\ pc = "done"
    /\ first_ret = None
    /\ max_articles > 0
    /\ first_ret' = [limit |-> max_articles, ret |-> ret]
    /\ max_articles' = 0
    /\ pc' = "start"
    /\ articles' = <<>>
    /\ i' = 0
    /\ processed_urls' = {}
    /\ news_items' = <<>>
    /\ cur' = NoLocals
    /\ ret' = None
    /\ network' = <<>>
    /\ UNCHANGED <<extract_images, download_images, site, saved_images>>
    /\ UNCHANGED others

(* -------------------- display_news and the writers -------------------- *)

\* isinstance(news_items, dict) and "error" in news_items
IsErrorObject(news) == "error" \in DOMAIN news

\* What a downstream function did: the value it returned, the files it
\* opened for writing and the kinds of line it printed.
Did(value, opened, printed) == [value |-> value, opened |-> opened, printed |-> printed]

\* display_news(news_items, ...): the error line, or the header and then
\* the items or the notice that there is none.
display_news(news) ==
    IF IsErrorObject(news) THEN Did(None, {}, <<"Error">>)
    ELSE IF news.value = <<>> THEN Did(None, {}, <<"header", "No news items found.">>)
    ELSE Did(None, {}, <<"header">> \o [k \in 1..Len(news.value) |-> "item"])

\* save_to_json without the test of its first line.
save_to_json_unchecked(news, filename, disk) ==
    IF ~disk THEN Did(FALSE, {}, <<>>)
    ELSE Did(TRUE, {filename}, <<>>)

\* save_to_json(news_items, filename); disk: whether open() succeeds.
save_to_json(news, filename, disk) ==
    IF IsErrorObject(news) THEN Did(FALSE, {}, <<>>)
    ELSE IF ~disk THEN Did(FALSE, {}, <<>>)
    ELSE Did(TRUE, {filename}, <<>>)

\* save_to_csv, save_to_text and create_html_report: as save_to_json, but
\* an empty list is refused before the file is opened.
save_nonempty(news, filename, disk) ==
    IF IsErrorObject(news) THEN Did(FALSE, {}, <<>>)
    ELSE IF news.value = <<>> THEN Did(FALSE, {}, <<>>)
    ELSE IF ~disk THEN Did(FALSE, {}, <<>>)
    ELSE Did(TRUE, {filename}, <<>>)

save_to_csv(news, filename, disk) == save_nonempty(news, filename, disk)

save_to_text(news, filename, disk) == save_nonempty(news, filename, disk)

create_html_report(news, filename, disk) == save_nonempty(news, filename, disk)

\* The main block goes on to its next statement, having called op (with
\* the outcome did) or, the option not given, not.
MainStep(from, to, op, called, did) ==
    /\ pc = "done"
    /\ step = from
    /\ step' = to
    /\ IF called
       THEN /\ files' = files \cup did.opened
            /\ console' = console \o did.printed
            /\ returned' = Append(returned, [op |-> op, value |-> did.value])
       ELSE UNCHANGED <<files, console, returned>>
    /\ UNCHANGED <<scraper, helpers, collaborator>>

\* Lines 797-798: display_news unless --quiet.
MainDisplay ==
    \E called \in BOOLEAN :
        MainStep("scrape", "json", "display_news", called, display_news(ret))

\* Lines 801-804: save_to_json with --json.
MainJson ==
    \E called, disk \in BOOLEAN :
        MainStep("json", "csv", "save_to_json", called,
                 save_to_json(ret, "crypto_news.json", disk))

\* Lines 806-809: save_to_csv with --csv.
MainCsv ==
    \E called, disk \in BOOLEAN :
        MainStep("csv", "text", "save_to_csv", called,
                 save_to_csv(ret, "crypto_news.csv", disk))

\* Lines 811-814: save_to_text with --text.
MainText ==
    \E called, disk \in BOOLEAN :
        MainStep("text", "html", "save_to_text", called,
                 save_to_text(ret, "crypto_news.txt", disk))

\* Lines 816-819: create_html_report with --html.
MainHtml ==
    \E called, disk \in BOOLEAN :
        MainStep("html", "exit", "create_html_report", called,
                 create_html_report(ret, "crypto_news_report.html", disk))

\* The main block after get_latest_crypto_news has returned.
Main ==
    \/ MainDisplay
    \/ MainJson
    \/ MainCsv
    \/ MainText
    \/ MainHtml

(* ------------------------ the helpers on their own -------------------- *)

\* The most resolutions of one candidate explored.
MaxResolutions == 2

\* Lines 141-142, 164-165, 328-329 and 342-345 applied to the string the
\* last resolution gave.
ResolveUrl ==
    /\ resolutions # <<>>
    /\ Len(resolutions) <= MaxResolutions
    /\ ~IsRaised(Last(resolutions))
    /\ resolutions' = Append(resolutions, Resolve(base_url, Last(resolutions)))
    /\ UNCHANGED <<container, base_url, images, reading, extracted>>
    /\ UNCHANGED <<scraper, downstream, collaborator>>

\* extract_article_images(container, base_url) called on its own.
ExtractImages ==
    /\ container # None
    /\ images = None
    /\ images' = ExtractArticleImages(container, base_url)
    /\ UNCHANGED <<container, base_url, resolutions, reading, extracted>>
    /\ UNCHANGED <<scraper, downstream, collaborator>>

\* get_article_content(article_url, headers, extract_images) called on
\* its own.
ReadArticle ==
    /\ reading # None
    /\ extracted = None
    /\ extracted' = Returned(GetArticleContent(reading.page, reading.article_url,
                                                reading.extract_images))
    /\ UNCHANGED <<container, base_url, images, resolutions, reading>>
    /\ UNCHANGED <<scraper, downstream, collaborator>>

(* ---------------- process_image of the image collaborator ------------ *)

\* for attempt in range(3)
Attempts == 3

\* The path process_image returns: image_path when it overwrites the
\* original, a new file in output_dir otherwise.
SavedPath(overwrite_original) ==
    [path |-> IF overwrite_original THEN "image_path" ELSE "output_dir"]

\* What happens to an attempt of gemini_image_processor.process_image whose
\* response is of the given kind: Returned(...) when the call returns in
\* it, None when the attempt ends in a sleep.  "raises": the request or
\* the handling of a chunk raises; "no_image": the stream ends without
\* inline data or a data:image text; "valid", "invalid": inline bytes that
\* Image.open accepts or does not; "undecodable": inline data that is a
\* data:image string whose base64 part does not decode; "text_image",
\* "text_invalid", "text_undecodable": a text with a data:image that
\* decodes to an image, decodes to bytes that Image.open refuses, or does
\* not decode.  copy_ok: whether shutil.copy2 succeeds.
ProcessorAttempt(call, response, copy_ok) ==
    CASE response \in {"raises", "no_image", "undecodable", "text_invalid",
                       "text_undecodable"} -> None
      [] response = "valid" -> Returned(SavedPath(call.overwrite_original))
      [] response = "invalid" ->
            IF call.overwrite_original THEN Returned(None)
            ELSE IF copy_ok THEN Returned(SavedPath(FALSE))
            ELSE Returned(None)
      [] response = "text_image" -> Returned(SavedPath(call.overwrite_original))

\* The same for re_gen_image_gemini.process_image, which prints a text
\* chunk and restores the backup of an image it cannot open.
ReGenAttempt(call, response) ==
    CASE response \in {"raises", "no_image", "undecodable", "text_image",
                       "text_invalid", "text_undecodable"} -> None
      [] response = "valid" -> Returned(SavedPath(call.overwrite_original))
      [] response = "invalid" ->
            IF call.overwrite_original /\ call.create_backups THEN Returned(None)
            ELSE Returned(SavedPath(call.overwrite_original))

\* One pass of the loop body, in the script of the call.
AttemptResult(call, response, copy_ok) ==
    IF call.script = "gemini_image_processor"
    THEN ProcessorAttempt(call, response, copy_ok)
    ELSE ReGenAttempt(call, response)

\* The files after an attempt of gemini_image_processor.process_image.  A
\* file holds "original" (the image as it was), "edited" (an image the
\* remote model made), "invalid" (bytes Image.open refuses), "truncated"
\* (nothing: opened for writing, not written) or is "absent".  Inline data
\* goes to a temporary file and is copied to the final path when it is
\* valid or the original is not overwritten; an image in a text is
\* written to the final path before it is opened.
ProcessorWrites(call, response, copy_ok, on_disk) ==
    LET final_path == SavedPath(call.overwrite_original).path IN
    CASE response \in {"raises", "no_image", "undecodable"} -> on_disk
      [] response = "valid" ->
            IF copy_ok THEN [on_disk EXCEPT ![final_path] = "edited"] ELSE on_disk
      [] response = "invalid" ->
            IF call.overwrite_original
            THEN IF call.create_backups
                 THEN [on_disk EXCEPT !.image_path = on_disk.backup]
                 ELSE on_disk
            ELSE IF copy_ok THEN [on_disk EXCEPT ![final_path] = "invalid"]
            ELSE on_disk
      [] response = "text_image" -> [on_disk EXCEPT ![final_path] = "edited"]
      [] response = "text_invalid" -> [on_disk EXCEPT ![final_path] = "invalid"]
      [] response = "text_undecodable" -> [on_disk EXCEPT ![final_path] = "truncated"]

\* The files after an attempt of re_gen_image_gemini.process_image, which
\* writes inline data to the final path before it opens it, and restores
\* the backup of an overwritten original that does not open.
ReGenWrites(call, response, on_disk) ==
    LET output_path == SavedPath(call.overwrite_original).path IN
    CASE response \in {"raises", "no_image", "text_image", "text_invalid",
                       "text_undecodable"} -> on_disk
      [] response = "valid" -> [on_disk EXCEPT ![output_path] = "edited"]
      [] response = "invalid" ->
            IF call.overwrite_original /\ call.create_backups
            THEN [on_disk EXCEPT !.image_path = on_disk.backup]
            ELSE [on_disk EXCEPT ![output_path] = "invalid"]
      [] response = "undecodable" -> [on_disk EXCEPT ![output_path] = "truncated"]

\* The files after one pass of the loop body, in the script of the call.
AttemptWrites(call, response, copy_ok, on_disk) ==
    IF call.script = "gemini_image_processor"
    THEN ProcessorWrites(call, response, copy_ok, on_disk)
    ELSE ReGenWrites(call, response, on_disk)

\* The locals after a pass of the loop with the given result.
AfterAttempt(result) ==
    /\ attempt' = attempt + 1
    /\ IF result = None
       THEN slept' = slept + 1 /\ UNCHANGED processed
       ELSE processed' = result /\ UNCHANGED slept

\* create_backup(image_path) when asked for, then Image.open(image_path)
\* before the loop: None is returned when it fails.
LoadImage ==
    /\ job # None
    /\ ~loaded
    /\ processed = None
    /\ stored' = IF job.create_backups
                 THEN [stored EXCEPT !.backup = stored.image_path]
                 ELSE stored
    /\ IF job.image_loads
       THEN loaded' = TRUE /\ UNCHANGED processed
       ELSE processed' = Returned(None) /\ UNCHANGED loaded
    /\ UNCHANGED <<job, attempt, slept>>
    /\ UNCHANGED <<scraper, downstream, helpers>>

\* One pass of for attempt in range(3): the request, the chunks, and the
\* return or the sleep.
Attempt ==
    /\ loaded
    /\ processed = None
    /\ attempt < Attempts
    /\ \E copy_ok \in BOOLEAN :
          /\ AfterAttempt(AttemptResult(job, job.responses[attempt + 1], copy_ok))
          /\ stored' = AttemptWrites(job, job.responses[attempt + 1], copy_ok, stored)
    /\ UNCHANGED <<job, loaded>>
    /\ UNCHANGED <<scraper, downstream, helpers>>

\* The return None after the loop.
GiveUp ==
    /\ loaded
    /\ processed = None
    /\ attempt = Attempts
    /\ processed' = Returned(None)
    /\ UNCHANGED <<job, loaded, attempt, slept, stored>>
    /\ UNCHANGED <<scraper, downstream, helpers>>

ProcessImage ==
    \/ LoadImage
    \/ Attempt
    \/ GiveUp

(* ------------------------- the explored inputs ------------------------ *)

\* The sequences over S of length at most n.
SeqsUpTo(S, n) == UNION {[1..m -> S] : m \in 0..n}

\* An img element with the given src and width attributes and no other.
ImgTag(src, width) ==
    [width |-> width, height |-> "", class |-> "", src |-> src, data_src |-> None,
     data_lazy_src |-> None, data_original |-> None, alt |-> "", title |-> "",
     region |-> "body"]

\* src="/t.png", src="x.png" and src="http://[bad/x.png"
SrcT == Url("", "", <<"", "t.png">>)
SrcX == Url("", "", <<"x.png">>)
SrcBad == Url("http", "[bad", <<"", "x.png">>)

\* src="https://cdn.example/y.png"
SrcAbs == Url("https", "cdn.example", <<"", "y.png">>)

\* src="//[bad/t.png"
SrcBadRelative == Url("", "[bad", <<"", "t.png">>)

\* A listing unit: its first img (None: none), its first a (None: none;
\* href None: no href attribute), the name of its first h2/h3/h4 ("": none)
\* and its stripped text, which is the heading's when there is a heading;
\* no title link, time element, span, div, p or tag link.
Unit(img, a, heading, text) ==
    [img |-> img, a |-> a, heading |-> heading, text |-> text,
     heading_text |-> IF heading = "" THEN "" ELSE text,
     title_link |-> None, time |-> None, spans |-> <<>>, tag_links |-> <<>>]

\* An a element with the given href and no text.
Link(href) == [href |-> href, text |-> ""]

HrefA == Url("", "", <<"", "a">>)
HrefAbsA == Url("https", "crypto.news", <<"", "a">>)
HrefB == Url("", "", <<"b">>)

UnitA == Unit(ImgTag(SrcT, ""), Link(HrefA), "h3", "Bitcoin rallies")
UnitAbsA == Unit(None, Link(HrefAbsA), "h3", "Bitcoin rallies")
UnitB == Unit(ImgTag(SrcT, ""), Link(HrefB), "h3", "Ether slips")
UnitNoLink == Unit(ImgTag(SrcT, ""), None, "", "Markets")
UnitBareLink == Unit(None, Link(HrefA), "", "")
UnitBadImg == Unit(ImgTag(SrcBadRelative, ""), Link(HrefB), "h3", "Ether slips")

PageA == Url("https", "crypto.news", <<"", "a">>)
PageB == Url("https", "crypto.news", <<"", "b">>)
ImageT == Url("https", "crypto.news", <<"", "t.png">>)
ImageX == Url("https", "crypto.news", <<"", "x.png">>)

\* An article page of one block: an article element with 300 characters
\* of text in two paragraphs, or a div with 100 characters and no paragraph.
Block(found, imgs) ==
    [name |-> IF found THEN "article" ELSE "div",
     sel |-> IF found THEN 1 ELSE 0,
     noise |-> FALSE,
     textlen |-> IF found THEN 300 ELSE 100,
     paras |-> IF found THEN <<" First paragraph. ", "Second paragraph.">> ELSE <<>>,
     text |-> IF found THEN <<" First paragraph. ", "Second paragraph.">> ELSE <<"Menu">>,
     imgs |-> imgs, styled |-> <<>>]

ArticlePage(found, imgs) == [status |-> "ok", blocks |-> <<Block(found, imgs)>>]

FailedPage(error) == [status |-> error, blocks |-> <<>>]

ListingPage(latest, elements) == [status |-> "ok", latest |-> latest, elements |-> elements]

AllDownloadsWork == [u \in {ImageT, ImageX} |-> "image/png"]

\* Listings of article elements whose links repeat, under every limit.
ListingInputs ==
    [max_articles : 0..MaxUnits,
     extract_images : {TRUE}, download_images : {TRUE},
     site : [listing : {ListingPage("none", [k \in DOMAIN us |->
                                                [kind |-> "article", unit |-> us[k]]]) :
                           us \in SeqsUpTo({UnitA, UnitAbsA, UnitB, UnitNoLink, UnitBadImg},
                                          MaxUnits)},
             pages : {[u \in {PageA, PageB} |->
                         IF u = PageA THEN ArticlePage(TRUE, <<ImgTag(SrcX, "")>>)
                         ELSE FailedPage("404 Client Error")]},
             images : {[u \in {ImageT, ImageX} |->
                         IF u = ImageT THEN "image/png" ELSE "404 Client Error"]}]]

\* One unit, every article page, every flag, every download outcome.
ArticleInputs ==
    [max_articles : {0},
     extract_images : BOOLEAN, download_images : BOOLEAN,
     site : [listing : {[status |-> st, latest |-> "none",
                         elements |-> <<[kind |-> "article", unit |-> UnitA]>>] :
                           st \in {"ok", "503 Server Error", "Connection aborted"}},
             pages : {[u \in {PageA, PageB} |-> p] :
                         p \in {ArticlePage(found, imgs) :
                                   found \in BOOLEAN,
                                   imgs \in SeqsUpTo({ImgTag(SrcT, ""), ImgTag(SrcX, ""),
                                                      ImgTag(SrcX, "100%"), ImgTag(SrcX, "50"),
                                                      ImgTag(SrcBad, "")}, MaxImgs)}
                               \cup {FailedPage("404 Client Error"),
                                     FailedPage("Connection aborted")}},
             images : [{ImageT, ImageX} -> {"image/png", "text/html", "404 Client Error",
                                            "image/png, broken stream"}]]]

\* The most elements of a listing explored for the locator cascade.
MaxElements == 2

\* Listings whose elements match different strategies of the locator.
LocatorInputs ==
    [max_articles : {0, 1},
     extract_images : {TRUE}, download_images : {FALSE},
     site : [listing : {ListingPage(latest, elements) :
                           latest \in {"none", "no_div", "div"},
                           elements \in SeqsUpTo(
                               [kind : {"latest_article", "article", "news_section",
                                        "story_item", "read_more", "story_read_more",
                                        "other"},
                                unit : {UnitA, UnitNoLink, UnitBareLink}], MaxElements)},
             pages : {[u \in {PageA, PageB} |-> ArticlePage(TRUE, <<>>)]},
             images : {AllDownloadsWork}]]

\* The most span, div and p elements of a unit explored.
MaxSpans == 2

\* A span, div or p of a unit, with its class attribute and its text.
Element(name, class, text) == [name |-> name, class |-> class, text |-> text]

\* A text node holder: the text of a heading, link or time element.
Text(text) == [text |-> text]

\* Units whose heading, links, time element and texts vary: one unit per
\* listing, no image asked for.
FieldInputs ==
    [max_articles : {0},
     extract_images : {FALSE}, download_images : {FALSE},
     site : [listing :
                {ListingPage("none", <<[kind |-> "article",
                    unit |-> [img |-> None,
                              a |-> [href |-> HrefA, text |-> a_text],
                              heading |-> heading.name,
                              heading_text |-> heading.text,
                              text |-> "Bitcoin rallies",
                              title_link |-> title_link,
                              time |-> time,
                              spans |-> spans,
                              tag_links |-> tag_links]]>>) :
                    heading \in {[name |-> "", text |-> ""],
                                 [name |-> "h3", text |-> " Bitcoin rallies "],
                                 [name |-> "h3", text |-> " "]},
                    title_link \in {None, Text("Ether slips"), Text("")},
                    a_text \in {"", "More", "Bitcoin rallies to a new high"},
                    time \in {None, Text("3 hours ago"), Text("")},
                    spans \in SeqsUpTo({Element("p", "", "About 3 Hours Ago"),
                                        Element("div", "post-content", "about 3 hours ago"),
                                        Element("p", "", "Bitcoin fell for a second day."),
                                        Element("div", "excerpt",
                                                "Prices rose sharply overnight."),
                                        Element("span", "", "3 hours ago")}, MaxSpans),
                    tag_links \in {<<>>, <<" Markets ", " ">>}},
             pages : {[u \in {PageA, PageB} |-> ArticlePage(TRUE, <<>>)]},
             images : {AllDownloadsWork}]]

\* src="lazy-placeholder.png", src="/img/lazy-placeholder.png",
\* src="/blank.gif" and data-src="/real.jpg"
SrcLazy == Url("", "", <<"lazy-placeholder.png">>)
SrcLazyDir == Url("", "", <<"", "img", "lazy-placeholder.png">>)
SrcBlank == Url("", "", <<"", "blank.gif">>)
SrcReal == Url("", "", <<"", "real.jpg">>)

\* One unit whose first img has every kind of src and data-src: absent,
\* empty, a placeholder, a relative and an absolute address.
ThumbnailInputs ==
    [max_articles : {0},
     extract_images : {TRUE}, download_images : {FALSE},
     site : [listing :
                {ListingPage("none", <<[kind |-> "article",
                    unit |-> Unit([ImgTag(src, "") EXCEPT !.data_src = data_src,
                                                          !.alt = " chart "],
                                  Link(HrefA), "h3", "Bitcoin rallies")]>>) :
                    src \in {None, EmptyStr, SrcT, SrcLazy, SrcLazyDir, SrcBlank, SrcAbs,
                             SrcBadRelative},
                    data_src \in {None, EmptyStr, SrcReal, SrcBlank, SrcLazy, SrcAbs}},
             pages : {[u \in {PageA, PageB} |-> ArticlePage(TRUE, <<>>)]},
             images : {AllDownloadsWork}]]

\* The main block has called nothing downstream.
NoDownstream ==
    /\ step = "scrape"
    /\ files = {}
    /\ console = <<>>
    /\ returned = <<>>

\* No call of extract_article_images, and no resolution, on its own.
NoHelperCall ==
    /\ container = None
    /\ base_url = None
    /\ images = None
    /\ resolutions = <<>>
    /\ reading = None
    /\ extracted = None

\* No call of process_image.
NoProcessImage ==
    /\ job = None
    /\ loaded = FALSE
    /\ attempt = 0
    /\ slept = 0
    /\ processed = None
    /\ stored = None

\* The state in which a call with the given arguments starts.
Begin(input) ==
    /\ max_articles = input.max_articles
    /\ extract_images = input.extract_images
    /\ download_images = input.download_images
    /\ site = input.site
    /\ pc = "start"
    /\ articles = <<>>
    /\ i = 0
    /\ processed_urls = {}
    /\ news_items = <<>>
    /\ cur = NoLocals
    /\ ret = None
    /\ network = <<>>
    /\ first_ret = None
    /\ saved_images = {}
    /\ NoDownstream
    /\ NoHelperCall
    /\ NoProcessImage

Init ==
    \/ \E input \in ListingInputs : Begin(input)
    \/ \E input \in ArticleInputs : Begin(input)
    \/ \E input \in LocatorInputs : Begin(input)
    \/ \E input \in FieldInputs : Begin(input)
    \/ \E input \in ThumbnailInputs : Begin(input)

\* A few listings, fetched or not, for the main block's runs.
MainInputs ==
    [max_articles : {0},
     extract_images : {TRUE}, download_images : BOOLEAN,
     site : [listing : {[status |-> st, latest |-> "none",
                         elements |-> [k \in DOMAIN us |->
                                          [kind |-> "article", unit |-> us[k]]]] :
                           st \in {"ok", "503 Server Error"},
                           us \in {<<>>, <<UnitA>>, <<UnitA, UnitB>>, <<UnitA, UnitAbsA>>,
                                   <<UnitBadImg>>}},
             pages : {[u \in {PageA, PageB} |-> ArticlePage(TRUE, <<ImgTag(SrcX, "")>>)]},
             images : {AllDownloadsWork}]]

InitMain == \E input \in MainInputs : Begin(input)

\* No call of get_latest_crypto_news.
NoScrape ==
    /\ max_articles = 0
    /\ extract_images = FALSE
    /\ download_images = FALSE
    /\ site = None
    /\ pc = "none"
    /\ articles = <<>>
    /\ i = 0
    /\ processed_urls = {}
    /\ news_items = <<>>
    /\ cur = NoLocals
    /\ ret = None
    /\ network = <<>>
    /\ first_ret = None
    /\ saved_images = {}

\* The most segments of a candidate's path explored.
MaxSegments == 3

\* The base URLs: the listing's address and addresses of article pages.
Bases ==
    {Url(scheme, "crypto.news", path) :
        scheme \in {"http", "https"},
        path \in {<<"", "">>, <<"", "a">>, <<"", "news", "">>, <<"", "news", "a">>}}

\* The candidate strings: a scheme or none, a host or none, a path of
\* segments; with a host the path is empty or starts with a slash, and
\* without one it does not start with two (what follows would be a host).
Candidates ==
    {c \in [scheme : {"", "http", "https", "ftp", "mailto"},
            netloc : {"", "h", "crypto.news", "[bad"},
            path : SeqsUpTo({"", "a", "..", "."}, MaxSegments) \ {<<>>}] :
        /\ c.netloc # "" => Head(c.path) = ""
        /\ c.netloc = "" => ~(Len(c.path) >= 3 /\ c.path[1] = "" /\ c.path[2] = "")}

InitResolve ==
    /\ NoScrape
    /\ NoDownstream
    /\ NoProcessImage
    /\ container = None
    /\ images = None
    /\ reading = None
    /\ extracted = None
    /\ base_url \in Bases
    /\ \E candidate \in Candidates : resolutions = <<candidate>>

\* Resolutions of a candidate against a base, one after the other.
SpecResolve == InitResolve /\ [][ResolveUrl]_vars

\* The most elements with a style attribute of a container explored.
MaxStyled == 2

\* An img with nothing but a src.
Plain == ImgTag(SrcX, "")

\* The img elements of the containers: sizes below, at and above 100 and
\* one that is no number, classes with and without a skip word, and the
\* four source attributes present, empty and absent.
ImgChoices ==
    {Plain,
     ImgTag(SrcX, "50"), ImgTag(SrcX, "100"), ImgTag(SrcX, "100%"),
     [Plain EXCEPT !.height = "99"],
     [Plain EXCEPT !.width = "640", !.height = "100", !.alt = " chart "],
     [Plain EXCEPT !.class = "Site-Logo"],
     [Plain EXCEPT !.class = "hero", !.title = " chart "],
     [Plain EXCEPT !.data_src = SrcT],
     [Plain EXCEPT !.src = None, !.data_src = SrcT, !.data_original = SrcAbs],
     [Plain EXCEPT !.src = EmptyStr, !.data_lazy_src = SrcT, !.data_original = SrcAbs],
     [Plain EXCEPT !.src = None, !.data_original = SrcAbs],
     [Plain EXCEPT !.src = None],
     [Plain EXCEPT !.src = EmptyStr, !.data_src = EmptyStr]}

\* An element with a style attribute: whether 'background-image' occurs
\* in it, the URL the regular expression finds (None: no match), and the
\* element's width, height and class.
Styled(background_image, style_url, width, class) ==
    [background_image |-> background_image, url |-> style_url,
     width |-> width, height |-> width, class |-> class, region |-> "body"]

StyledChoices ==
    {Styled(TRUE, SrcT, "", ""),
     Styled(TRUE, SrcAbs, "50", "Site-Logo"),
     Styled(TRUE, None, "", ""),
     Styled(FALSE, None, "", "")}

InitImages ==
    /\ NoScrape
    /\ NoDownstream
    /\ NoProcessImage
    /\ resolutions = <<>>
    /\ images = None
    /\ reading = None
    /\ extracted = None
    /\ base_url \in {PageA, Url("https", "crypto.news", <<"", "news", "a">>)}
    /\ \E imgs \in SeqsUpTo(ImgChoices, MaxImgs),
          styled \in SeqsUpTo(StyledChoices, MaxStyled) :
          container = [imgs |-> imgs, styled |-> styled]

\* Calls of extract_article_images on a container.
SpecImages == InitImages /\ [][ExtractImages]_vars

\* The most elements of an article page explored.
MaxBlocks == 3

\* An element of an article page: its tag name, the index in
\* content_selectors of the first selector that matches it (0: none), the
\* length of its stripped text, its p elements' texts and its imgs; its
\* text is a headline and then the paragraphs.  noise: whether the
\* selector of line 34 matches it.
PageBlock(name, sel, textlen, paras, imgs, noise) ==
    [name |-> name, sel |-> sel, noise |-> noise, textlen |-> textlen,
     paras |-> paras, text |-> <<" Headline ">> \o paras,
     imgs |-> imgs, styled |-> <<>>]

\* The elements of the article pages: text lengths at and above the two
\* thresholds, paragraph counts at and above three, selectors early and
\* late in the list, a paragraph that is blank, and a header with an img.
BlockChoices ==
    {PageBlock("article", 1, 201, <<" First paragraph. ", "Second paragraph.">>,
               <<ImgTag(SrcX, "")>>, FALSE),
     PageBlock("article", 1, 200, <<"Short one.", "Short two.">>, <<>>, FALSE),
     PageBlock("main", 2, 300, <<"Only paragraph.">>, <<>>, FALSE),
     PageBlock("div", 6, 250, <<"Content one.", " ", "Content two.">>, <<>>, FALSE),
     PageBlock("div", 0, 501, <<"Large one.", "Large two.", "Large three.", "Large four.">>,
               <<>>, FALSE),
     PageBlock("div", 0, 600, <<"Three one.", "Three two.", "Three three.">>, <<>>, FALSE),
     PageBlock("section", 0, 500, <<"Edge one.", "Edge two.", "Edge three.", "Edge four.">>,
               <<>>, FALSE),
     PageBlock("table", 0, 900, <<"Cell one.", "Cell two.", "Cell three.", "Cell four.">>,
               <<>>, FALSE),
     PageBlock("header", 0, 40, <<>>, <<ImgTag(SrcT, "")>>, TRUE)}

\* The calls of get_article_content: a page of a few elements or a fetch
\* that fails, with and without images.
ContentCalls ==
    [page : {[status |-> "ok", blocks |-> blocks] :
                blocks \in SeqsUpTo(BlockChoices, MaxBlocks)}
            \cup {FailedPage("404 Client Error")},
     article_url : {PageA},
     extract_images : BOOLEAN]

InitContent ==
    /\ NoScrape
    /\ NoDownstream
    /\ NoProcessImage
    /\ container = None
    /\ base_url = None
    /\ images = None
    /\ resolutions = <<>>
    /\ reading \in ContentCalls
    /\ extracted = None

\* Calls of get_article_content on a page.
SpecContent == InitContent /\ [][ReadArticle]_vars

\* The calls of process_image: either script, every flag, every sequence
\* of responses of the remote model.
Jobs ==
    [script : {"gemini_image_processor", "re_gen_image_gemini"},
     image_loads : BOOLEAN,
     create_backups : BOOLEAN,
     overwrite_original : BOOLEAN,
     responses : [1..Attempts -> {"raises", "no_image", "valid", "invalid", "undecodable",
                                  "text_image", "text_invalid", "text_undecodable"}]]

InitProcessImage ==
    /\ NoScrape
    /\ NoDownstream
    /\ NoHelperCall
    /\ job \in Jobs
    /\ loaded = FALSE
    /\ attempt = 0
    /\ slept = 0
    /\ processed = None
    /\ stored = [image_path |-> "original", backup |-> "absent", output_dir |-> "absent"]

\* One call of process_image.
SpecProcessImage == InitProcessImage /\ [][ProcessImage]_vars

\* One call of get_latest_crypto_news.
Spec == Init /\ [][Next]_vars

\* A call with a positive limit, then a call without one on the same site.
SpecTwoRuns == Init /\ [][Next \/ Rerun]_vars

\* The main block: the call, then display_news and the writers.
SpecMain == InitMain /\ [][Next \/ Main]_vars

(* ------------------------------ properties ---------------------------- *)

IsList(r) == "value" \in DOMAIN r

IsError(r) == "error" \in DOMAIN r

\* The URLs of the units of a sequence, None for a unit without one.
UnitUrls(units) == [k \in 1..Len(units) |-> ArticleUrl(units[k])]

RECURSIVE KeepFirst(_, _)
\* The URLs of a sequence with every repeat of a URL other than None
\* dropped.
KeepFirst(urls, seen) ==
    IF urls = <<>> THEN <<>>
    ELSE IF Head(urls) # None /\ Head(urls) \in seen THEN KeepFirst(Tail(urls), seen)
    ELSE <<Head(urls)>> \o KeepFirst(Tail(urls), seen \cup {Head(urls)})

\* The URLs of a sequence of records.
RecordUrls(records) == [k \in 1..Len(records) |-> records[k].url]

\* The requests of a kind sent so far.
Requests(op) == SelectSeq(network, LAMBDA r : r.op = op)

\* What the cascade is to yield: the units of the first strategy, in the
\* order 1 to 4, that yields any.
Strategy(k) ==
    CASE k = 1 -> LatestSection(site.listing)
      [] k = 2 -> AllArticles(site.listing)
      [] k = 3 -> NewsSections(site.listing)
      [] k = 4 -> StoriesAndReadMore(site.listing)

\* Whether the listing was fetched and every unit's image source and href
\* resolve, so that nothing fails before the per-article phase.
ListingParses ==
    /\ site.listing.status = "ok"
    /\ \A k \in 1..Len(site.listing.elements) :
          /\ ~IsRaised(Thumbnail(site.listing.elements[k].unit))
          /\ ~IsRaised(ArticleUrl(site.listing.elements[k].unit))

\* C1: a returned record sequence has no two records with the same URL
\* other than None, and its URLs are those of the processed units with
\* every later occurrence of a URL dropped (the first occurrence is kept).
C1_DedupInvariant ==
    (pc = "done" /\ IsList(ret)) =>
        /\ \A m, n \in 1..Len(ret.value) :
              (m # n /\ ret.value[m].url # None) => ret.value[m].url # ret.value[n].url
        /\ RecordUrls(ret.value) = KeepFirst(UnitUrls(articles), {})

\* C1 witness: a returned list of two records or more from units of which
\* two resolve to the same URL through different href strings.
C1_Witness ==
    /\ pc = "done" /\ IsList(ret) /\ Len(ret.value) >= 2
    /\ \E m, n \in 1..Len(articles) :
          /\ m < n
          /\ articles[m].a # None /\ articles[n].a # None
          /\ articles[m].a.href # articles[n].a.href
          /\ ArticleUrl(articles[m]) = ArticleUrl(articles[n])

\* C2: with image extraction on, no two entries of a returned record's
\* images have the same url.
C2_ImagesUnique ==
    (pc = "done" /\ IsList(ret) /\ extract_images) =>
        \A r \in 1..Len(ret.value) :
            \A m, n \in 1..Len(ret.value[r].images) :
                m # n => ret.value[r].images[m].url # ret.value[r].images[n].url

\* C3: the list returned under a limit L below the number N of units is
\* the first L records of the list the unlimited call returns.
C3_TruncationOrder ==
    (/\ pc = "done" /\ first_ret # None
     /\ IsList(ret) /\ IsList(first_ret.ret)
     /\ first_ret.limit < Len(articles)) =>
        first_ret.ret.value = Take(ret.value, first_ret.limit)

\* C4: the call returns either a list or an object with nothing but an
\* error message; after a failed listing fetch it is the error object, no
\* request but the listing's was sent and no record exists.
C4_TwoShapes ==
    /\ (pc # "done") = (ret = None)
    /\ pc = "done" =>
          /\ IsList(ret) # IsError(ret)
          /\ IsError(ret) => DOMAIN ret = {"error"}
    /\ site.listing.status # "ok" =>
          /\ Requests("article") = <<>> /\ Requests("image") = <<>>
          /\ news_items = <<>>
          /\ pc = "done" => IsError(ret)

\* C4 witness: a call ended by a failed listing fetch.
C4_Witness ==
    /\ pc = "done" /\ site.listing.status # "ok" /\ IsError(ret)
    /\ site.listing.elements # <<>>

\* C5: when the listing was fetched and parsed, failures of article
\* fetches, article parses and image downloads leave the result a list
\* with a record for every unit that is not a duplicate, the content of a
\* unit whose page could not be fetched being an error marker.
C5_ItemLocalFailures ==
    (pc = "done" /\ ListingParses) =>
        /\ IsList(ret)
        /\ RecordUrls(ret.value) = KeepFirst(UnitUrls(articles), {})
        /\ \A r \in 1..Len(ret.value) :
              (ret.value[r].url # None /\ site.pages[ret.value[r].url].status # "ok")
                  => ret.value[r].content
                        = ErrorMsg(Raised(site.pages[ret.value[r].url].status))

\* Whether get_article_content finds no container on the fetched page.
NoContainer(page) ==
    /\ page.status = "ok"
    /\ \A k \in 1..Len(page.blocks) :
          \/ page.blocks[k].noise
          \/ /\ ~(page.blocks[k].sel > 0 /\ page.blocks[k].textlen > 200)
             /\ ~(/\ page.blocks[k].name \in {"div", "section"}
                  /\ page.blocks[k].textlen > 500
                  /\ Len(page.blocks[k].paras) > 3)

\* C6: for a fetched page without a content container the body text is
\* the fixed failure marker and the images, when asked for, are what the
\* image filter yields on the whole document.
C6_GracefulDegradation ==
    (pc = "download" /\ cur.article_url # None
     /\ NoContainer(site.pages[cur.article_url])) =>
        /\ cur.content = FailureMarker
        /\ extract_images =>
              LET whole == ExtractArticleImages(
                               Soup(site.pages[cur.article_url].blocks), cur.article_url)
              IN IsList(whole) => cur.result.images = whole.value

\* C7: when the listing was fetched and no strategy finds a unit, the
\* call returns the empty list and requests no article page.
C7_ZeroArticles ==
    (/\ pc = "done" /\ site.listing.status = "ok"
     /\ \A k \in 1..4 : Strategy(k) = <<>>) =>
        /\ ret = Returned(<<>>)
        /\ Requests("article") = <<>> /\ Requests("image") = <<>>

\* C7 witness: a page with elements, none of which any strategy takes.
C7_Witness ==
    /\ pc = "done" /\ site.listing.status = "ok"
    /\ \A k \in 1..4 : Strategy(k) = <<>>
    /\ Len(site.listing.elements) = MaxElements
    /\ ret = Returned(<<>>)

\* C8: the located units are those of exactly one strategy, the first in
\* order that yields any; a 'Latest' heading whose div holds no article
\* leaves the units to the second strategy.
C8_OrderedCascade ==
    pc = "located" =>
        /\ \E k \in 1..4 :
              /\ articles = Strategy(k)
              /\ articles # <<>>
              /\ \A m \in 1..(k - 1) : Strategy(m) = <<>>
        /\ (site.listing.latest = "div" /\ Strategy(1) = <<>> /\ Strategy(2) # <<>>)
              => articles = Strategy(2)

\* C8 witness: a 'Latest' heading followed by a div without articles, an
\* article elsewhere and an element the third strategy would take.
C8_Witness ==
    /\ pc = "located"
    /\ site.listing.latest = "div"
    /\ Strategy(1) = <<>> /\ Strategy(2) # <<>> /\ Strategy(3) # <<>>
    /\ articles = Strategy(2)

\* The first strategy, in order, that yields a unit (0: none does).
Supplier ==
    IF \A k \in 1..4 : Strategy(k) = <<>> THEN 0
    ELSE CHOOSE k \in 1..4 : Strategy(k) # <<>> /\ \A m \in 1..(k - 1) : Strategy(m) = <<>>

\* C9: once the limit is applied, the units are the first N of the
\* supplying strategy's for a positive limit N, with at most N records
\* and N article requests, and all of them for limit 0, every one of
\* which is then processed.
C9_LimitAfterCascade ==
    (pc \in {"loop", "fetch", "download"} \/ (pc = "done" /\ Supplier > 0
                                               /\ site.listing.status = "ok")) =>
        /\ max_articles > 0 =>
              /\ Len(articles) <= max_articles
              /\ articles = SubSeq(Strategy(Supplier), 1, Len(articles))
              /\ Len(articles) = max_articles \/ articles = Strategy(Supplier)
              /\ Len(news_items) <= max_articles
              /\ Len(Requests("article")) <= max_articles
        /\ max_articles = 0 => articles = Strategy(Supplier)
        /\ (pc = "done" /\ IsList(ret)) => i = Len(articles) + 1

\* C9 witness: a returned list as long as a limit that cut the units.
C9_Witness ==
    /\ pc = "done" /\ IsList(ret) /\ Supplier > 0
    /\ max_articles > 0 /\ max_articles < Len(Strategy(Supplier))
    /\ Len(ret.value) = max_articles
    /\ Len(Requests("article")) = max_articles

\* C10: in a returned record images is empty when extract_images is
\* false and local_images is empty when download_images is false.
C10_FlagsGateImages ==
    (pc = "done" /\ IsList(ret)) =>
        \A r \in 1..Len(ret.value) :
            /\ ~extract_images => ret.value[r].images = <<>>
            /\ ~download_images => ret.value[r].local_images = <<>>

\* C10 witness: a record of a unit with a thumbnail, returned by a call
\* that asked for downloads but not for images.
C10_Witness ==
    /\ pc = "done" /\ IsList(ret) /\ Len(ret.value) = 1
    /\ ~extract_images /\ download_images
    /\ Thumbnail(articles[1]) # None
    /\ ret.value[1].images = <<>> /\ ret.value[1].local_images = <<>>

\* C11: every returned record has a title that is not empty.
C11_TitleNeverEmpty ==
    (pc = "done" /\ IsList(ret)) =>
        \A r \in 1..Len(ret.value) : ret.value[r].title # ""

\* C12: in every returned record the summary is empty or differs from the
\* record's timestamp.
C12_SummaryIsNotTimestamp ==
    (pc = "done" /\ IsList(ret)) =>
        \A r \in 1..Len(ret.value) :
            ret.value[r].summary = "" \/ ret.value[r].summary # ret.value[r].timestamp

\* C13: on the run-level error object display_news prints the error line
\* alone and returns, each writer returns False, and no file is opened.
C13_WritersShortCircuit ==
    (pc = "done" /\ IsError(ret)) =>
        /\ files = {}
        /\ \A k \in 1..Len(returned) :
              returned[k].value = IF returned[k].op = "display_news" THEN None ELSE FALSE
        /\ \A k \in 1..Len(console) : console[k] = "Error"

\* C13 witness: the main block ended after calling display_news and the
\* four writers on an error object.
C13_Witness ==
    /\ pc = "done" /\ IsError(ret)
    /\ step = "exit"
    /\ Len(returned) = 5
    /\ console = <<"Error">>

\* C14: the listing request is the first request and the only one of its
\* kind; the requests of a unit come after those of every earlier unit;
\* a unit's page is requested once, before any of its images.
C14_StrictlySequential ==
    /\ network # <<>> => network[1].op = "listing"
    /\ \A n \in 2..Len(network) : network[n].op # "listing"
    /\ (pc \notin {"start"}) => Len(Requests("listing")) = 1
    /\ \A m, n \in 1..Len(network) :
          m < n =>
             /\ network[m].unit <= network[n].unit
             /\ network[m].unit = network[n].unit =>
                    network[m].op \in {"article", "image"} /\ network[n].op = "image"
    /\ \A n \in 1..Len(network) :
          network[n].op = "image" =>
             \E m \in 1..(n - 1) :
                network[m].op = "article" /\ network[m].unit = network[n].unit

\* C14 witness: a returned list after two units whose pages were requested
\* and of each of which an image was downloaded.
C14_Witness ==
    /\ pc = "done" /\ IsList(ret)
    /\ \E m, n \in 1..Len(network) :
          /\ network[m].op = "image" /\ network[n].op = "image"
          /\ network[m].unit = 1 /\ network[n].unit = 2
    /\ Len(Requests("article")) >= 2

\* C15: resolving against the same base what a resolution gave gives it
\* again.
C15_ResolveIdempotent ==
    \A n \in 3..Len(resolutions) : resolutions[n] = resolutions[2]

\* C15 witness: a relative candidate with dot segments, resolved twice
\* against a base with a path, the first resolution changing it.
C15_Witness ==
    /\ Len(resolutions) = 3
    /\ resolutions[1].scheme = "" /\ resolutions[1].netloc = ""
    /\ \E n \in 1..Len(resolutions[1].path) : resolutions[1].path[n] = ".."
    /\ Len(base_url.path) = 3
    /\ resolutions[2] # resolutions[1]
    /\ resolutions[3] = resolutions[2]

\* Whether int() raises on the width or height of an img of the page.
IntRaises(page) ==
    \E b \in 1..Len(page.blocks) : \E k \in 1..Len(page.blocks[b].imgs) :
        \/ page.blocks[b].imgs[k].width \notin NumericStrings \cup {""}
        \/ page.blocks[b].imgs[k].height \notin NumericStrings \cup {""}

\* C16: get_article_content returns a content/images pair when images are
\* asked for and a text alone otherwise; when the fetch raises, or int()
\* raises in the image filter, the text is the error message of that
\* exception and the images, when asked for, are none.
C16_ContentFailureShape ==
    (pc = "download" /\ cur.article_url # None) =>
        LET page == site.pages[cur.article_url] IN
        /\ extract_images =>
              /\ DOMAIN cur.result = {"content", "images"}
              /\ cur.content = cur.result.content
        /\ ~extract_images => cur.result = None
        /\ \A k \in 1..Len(cur.content) : cur.content[k] \in STRING
        /\ page.status # "ok" =>
              /\ cur.content = ErrorMsg(Raised(page.status))
              /\ extract_images => cur.result.images = <<>>
        /\ (page.status = "ok" /\ extract_images /\ IntRaises(page)) =>
              /\ cur.content
                    = ErrorMsg(Raised("invalid literal for int() with base 10"))
              /\ cur.result.images = <<>>

\* C16 witness: images asked for, the page fetched, and an img of it with
\* the width 100%.
C16_Witness ==
    /\ pc = "download" /\ cur.article_url # None
    /\ extract_images
    /\ site.pages[cur.article_url].status = "ok"
    /\ IntRaises(site.pages[cur.article_url])
    /\ cur.result = [content |-> ErrorMsg(Raised("invalid literal for int() with base 10")),
                     images |-> <<>>]

\* C17: extract_article_images returns a list of images and does not
\* raise, whatever the container.
C17_ImageFilterNeverRaises ==
    images # None => (IsList(images) /\ ~IsRaised(images))

\* C18: process_image makes at most three attempts, sleeps after every
\* attempt that gives no usable image, and, once the image is loaded,
\* returns None only when three attempts have been made.
C18_ThreeAttemptLoop ==
    /\ attempt <= Attempts
    /\ slept <= attempt
    /\ (loaded /\ processed = Returned(None)) =>
          (attempt = Attempts /\ slept = Attempts)

\* Whether an attribute that is a size is absent or a number not below 100.
NotSmall(size) == size = "" \/ (size \in NumericStrings /\ IntOf(size) >= 100)

\* The source attributes of an img in the order of their priority, those
\* that are absent or empty left out.
Sources(img) ==
    SelectSeq(<<img.src, img.data_src, img.data_lazy_src, img.data_original>>,
              LAMBDA source : source # None /\ source # EmptyStr)

\* Whether an img element passes every rule of the filter.
PassesFilter(img) ==
    /\ NotSmall(img.width) /\ NotSmall(img.height)
    /\ \A word \in {"icon", "avatar", "logo", "thumbnail", "thumb", "badge"} :
          word \notin WordsIn(img.class)
    /\ Sources(img) # <<>>

\* The style elements of a container that give an image.
WithBackground(elements) ==
    SelectSeq(elements, LAMBDA e : e.background_image /\ e.url # None)

\* C19: the entries of the returned list that come from img elements are,
\* in order, those of the img elements that pass every rule of the filter
\* (no size below 100, no skip word in the class, a source attribute), each
\* with the resolution of its first non-empty source attribute as url.
C19_ImgRefsPassFilter ==
    (images # None /\ IsList(images)) =>
        LET passing == SelectSeq(container.imgs, PassesFilter)
            from_imgs == SubSeq(images.value, 1,
                                Len(images.value) - Len(WithBackground(container.styled)))
        IN /\ Len(from_imgs) = Len(passing)
           /\ \A k \in 1..Len(from_imgs) :
                 from_imgs[k].url = Resolve(base_url, Head(Sources(passing[k])))

\* C19 witness: a returned list with an entry of an img whose src is empty
\* and whose later source attributes are two, after an img that is skipped.
C19_Witness ==
    /\ images # None /\ IsList(images)
    /\ Len(container.imgs) = 2
    /\ ~PassesFilter(container.imgs[1])
    /\ container.imgs[2].src = EmptyStr /\ Len(Sources(container.imgs[2])) = 2
    /\ container.styled # <<>>
    /\ images.value[1].url = Resolve(base_url, container.imgs[2].data_lazy_src)

\* C20: the returned list is the entries of the img elements followed by
\* one entry, with empty alt and title, for every element whose style
\* gives a background image, in document order, whatever the element's
\* width, height and class.
C20_ImgsThenBackgrounds ==
    (images # None /\ IsList(images)) =>
        LET backgrounds == WithBackground(container.styled)
            first == Len(images.value) - Len(backgrounds)
        IN /\ first >= 0
           /\ first <= Len(container.imgs)
           /\ \A k \in 1..Len(backgrounds) :
                 images.value[first + k]
                    = [url |-> Resolve(base_url, backgrounds[k].url),
                       alt |-> "", title |-> ""]
           /\ \E kept \in SUBSET (1..Len(container.imgs)) :
                 /\ Cardinality(kept) = first
                 /\ \A k \in 1..first :
                       \E n \in kept :
                          /\ Cardinality({m \in kept : m <= n}) = k
                          /\ images.value[k].alt = Strip(container.imgs[n].alt)
                          /\ images.value[k].title = Strip(container.imgs[n].title)
                          /\ \E source \in {container.imgs[n].src,
                                              container.imgs[n].data_src,
                                              container.imgs[n].data_lazy_src,
                                              container.imgs[n].data_original} :
                                /\ source # None
                                /\ images.value[k].url = Resolve(base_url, source)

\* C20 witness: a returned list with the entries of two imgs and then of
\* two style elements, one of which has a small width and a logo class.
C20_Witness ==
    /\ images # None /\ IsList(images)
    /\ Len(images.value) = 4
    /\ Len(container.imgs) = 2 /\ Len(container.styled) = 2
    /\ \E k \in 1..2 :
          /\ container.styled[k].width = "50"
          /\ container.styled[k].class = "Site-Logo"
          /\ images.value[2 + k].url = container.styled[k].url
    /\ images.value[1].url # images.value[2].url

\* The elements of a page that are left when the noise is removed.
Kept(page) == SelectSeq(page.blocks, LAMBDA b : ~b.noise)

\* Whether a selector of the list matches the element and its text is
\* longer than 200 characters.
Qualifies(b) == b.sel > 0 /\ b.textlen > 200

\* Whether the element is a div or section with more than 500 characters
\* and more than 3 paragraphs.
IsLarge(b) == b.name \in {"div", "section"} /\ b.textlen > 500 /\ Len(b.paras) > 3

\* The body text of what a get_article_content call returned.
BodyText == IF reading.extract_images THEN extracted.value.content ELSE extracted.value

Paragraphs(b) ==
    SelectSeq([k \in 1..Len(b.paras) |-> Strip(b.paras[k])], LAMBDA t : t # "")

\* C22: when the body text is made of the paragraphs of an element with
\* more than one p, it is these paragraphs in order with one blank line
\* between every two of them.
C22_BlankLineBetweenParagraphs ==
    (extracted # None /\ reading.page.status = "ok") =>
        \A k \in 1..Len(Kept(reading.page)) :
            LET paragraphs == Paragraphs(Kept(reading.page)[k]) IN
            (/\ Len(Kept(reading.page)[k].paras) > 1
             /\ SelectSeq(BodyText, LAMBDA line : line # "") = paragraphs)
            => /\ Len(BodyText) = 2 * Len(paragraphs) - 1
               /\ \A n \in 1..Len(paragraphs) : BodyText[2 * n - 1] = paragraphs[n]
               /\ \A n \in 1..(Len(paragraphs) - 1) : BodyText[2 * n] = ""

\* C23: when no container is found and images are asked for, every img of
\* the page as fetched that passes the filter has an entry in the returned
\* images, the imgs inside the elements that the first loop removes
\* included.
C23_FallbackOnPageAsFetched ==
    (/\ extracted # None /\ reading.page.status = "ok"
     /\ reading.extract_images
     /\ BodyText = FailureMarker) =>
        \A b \in 1..Len(reading.page.blocks) :
            \A k \in 1..Len(reading.page.blocks[b].imgs) :
                LET img == reading.page.blocks[b].imgs[k] IN
                PassesFilter(img) =>
                    \E n \in 1..Len(extracted.value.images) :
                        extracted.value.images[n].url
                           = Resolve(reading.article_url, Head(Sources(img)))

\* The URL the thumbnail is taken from: data-src when src ends in the
\* lazy placeholder's name and data-src exists, src otherwise.
FinalUrl(img) ==
    IF Last(img.src.path) = "lazy-placeholder.png" /\ img.data_src # None
    THEN img.data_src ELSE img.src

\* The ImageRef of a thumbnail with the given address.
ThumbnailRef(img, address) ==
    [url |-> Resolve(url, address), alt |-> img.alt, title |-> img.title,
     is_thumbnail |-> TRUE]

\* C24 as stated: a unit whose first img has a src has no thumbnail when
\* the final URL ends in lazy-placeholder.png or blank.gif, and otherwise
\* has the ImageRef of the final URL resolved against the listing's address.
C24_ThumbnailUnlessPlaceholder ==
    (pc \in {"fetch", "download"} /\ articles[i].img # None
     /\ articles[i].img.src # None) =>
        LET img == articles[i].img IN
        IF Last(FinalUrl(img).path) \in {"lazy-placeholder.png", "blank.gif"}
        THEN cur.thumbnail_img = None
        ELSE cur.thumbnail_img = ThumbnailRef(img, FinalUrl(img))

\* C24 as amended: there is no thumbnail either when the final URL is the
\* empty string; a unit without an img, or whose first img has no src,
\* has none.
C24_ThumbnailUnlessPlaceholderOrEmpty ==
    (pc \in {"fetch", "download"}) =>
        LET img == articles[i].img IN
        IF img = None THEN cur.thumbnail_img = None
        ELSE IF img.src = None THEN cur.thumbnail_img = None
        ELSE IF FinalUrl(img) = EmptyStr THEN cur.thumbnail_img = None
        ELSE IF Last(FinalUrl(img).path) \in {"lazy-placeholder.png", "blank.gif"}
        THEN cur.thumbnail_img = None
        ELSE cur.thumbnail_img = ThumbnailRef(img, FinalUrl(img))

\* C24 witness: src="lazy-placeholder.png" and data-src="/real.jpg" give
\* the thumbnail https://crypto.news/real.jpg.
C24_Witness ==
    /\ pc = "fetch"
    /\ articles[i].img # None
    /\ articles[i].img.src = SrcLazy /\ articles[i].img.data_src = SrcReal
    /\ cur.thumbnail_img # None
    /\ cur.thumbnail_img.url = Url("https", "crypto.news", <<"", "real.jpg">>)
    /\ cur.thumbnail_img.is_thumbnail

\* Whether a span, div or p looks like a timestamp: a time word in its
\* text and fewer than 20 characters.
TimeLike(element) ==
    /\ HasTimeWord(Lower(Strip(element.text)))
    /\ Len(Strip(element.text)) < 20

\* C25: the timestamp of a record is the text of the unit's time element
\* when there is one, whatever the other texts; without one, the text of
\* the first span, div or p that looks like a timestamp; and the sentinel
\* "Unknown time" when there is neither or when no text is recovered.
C25_TimestampFallback ==
    (pc = "done" /\ IsList(ret) /\ Len(articles) = 1 /\ Len(ret.value) = 1) =>
        LET unit == articles[1]
            timestamp == ret.value[1].timestamp
            like == {k \in 1..Len(unit.spans) : TimeLike(unit.spans[k])}
        IN /\ timestamp # ""
           /\ unit.time # None =>
                 timestamp \in {Strip(unit.time.text), "Unknown time"}
           /\ (unit.time # None /\ Strip(unit.time.text) # "") =>
                 timestamp = Strip(unit.time.text)
           /\ (unit.time = None /\ like = {}) => timestamp = "Unknown time"
           /\ (unit.time = None /\ like # {}) =>
                 \E k \in like :
                    /\ \A m \in like : k <= m
                    /\ timestamp = Strip(unit.spans[k].text)

\* The local_images entries made so far: those of the records and those
\* of the unit being processed.
LocalEntries ==
    Concat([r \in 1..Len(news_items) |-> news_items[r].local_images]) \o cur.local_images

\* The image requests sent for the unit being processed.
UnitDownloads == SelectSeq(network, LAMBDA r : r.op = "image" /\ r.unit = i)

\* C26: every local_images entry is of an image whose response was read
\* and had an image/ Content-Type, and holds the path of a file that was
\* written; the target of a response with another Content-Type is not
\* written; a download that fails (another type, an error status, a
\* transport error) adds no entry and the loop goes on with the next image.
C26_OnlyImageTypesAccepted ==
    /\ \A k \in 1..Len(LocalEntries) :
          /\ IsImageType(site.images[LocalEntries[k].url])
          /\ LocalEntries[k].local_path \in saved_images
    /\ \A n \in 1..Len(network) :
          (/\ network[n].op = "image"
           /\ ~IsImageType(site.images[network[n].url])
           /\ site.images[network[n].url] \notin DownloadErrors)
          => \A path \in saved_images :
                ~(path.folder = network[n].unit
                  /\ path.basename = Last(network[n].url.path))
    /\ pc = "download" =>
          /\ Len(UnitDownloads) = cur.j
          /\ Len(cur.local_images)
                = Len(SelectSeq(UnitDownloads,
                                LAMBDA r : IsImageType(site.images[r.url])))

\* C26 witness: of the two images of a unit one was answered with
\* text/html and one with image/png: one entry, one file.
C26_Witness ==
    /\ pc = "download"
    /\ cur.j = 2
    /\ \E m, n \in 1..Len(UnitDownloads) :
          /\ site.images[UnitDownloads[m].url] = "text/html"
          /\ site.images[UnitDownloads[n].url] = "image/png"
    /\ Len(cur.local_images) = 1
    /\ Cardinality(saved_images) = 1

\* C27: the returned list is the list of records as appended; a step
\* leaves every record appended earlier as it is and where it is, adds at
\* most one record, at the end, which is that of the unit the loop stands
\* at, and never moves the loop back to an earlier unit.
C27_RecordsNeverRevisited ==
    /\ [](IsList(ret) => ret.value = news_items)
    /\ [][/\ Len(news_items') >= Len(news_items)
          /\ Len(news_items') <= Len(news_items) + 1
          /\ \A k \in 1..Len(news_items) : news_items'[k] = news_items[k]
          /\ i' >= i
          /\ Len(news_items') = Len(news_items) + 1 =>
                /\ i' = i + 1
                /\ Last(news_items').url = ArticleUrl(articles[i])
                /\ Last(news_items').title = Title(articles[i])]_vars

\* C27 witness: the third unit's image has been downloaded while the
\* records of the first two units, one of them with a downloaded image,
\* are in the list.
C27_Witness ==
    /\ pc = "download" /\ i = 3
    /\ Len(news_items) = 2
    /\ news_items[1].url # news_items[2].url
    /\ \E r \in 1..2 : news_items[r].local_images # <<>>
    /\ cur.local_images # <<>>

\* C28: when gemini_image_processor.process_image, overwriting the
\* original and keeping a backup, returns None, the file at image_path
\* holds what it held before the call.
C28_NoneLeavesOriginal ==
    (/\ job # None
     /\ job.script = "gemini_image_processor"
     /\ job.overwrite_original /\ job.create_backups
     /\ processed = Returned(None)) =>
        stored.image_path = "original"

\* C29: when process_image returns a path, the file at that path is an
\* image that Image.open accepts.
C29_ReturnedPathIsValidImage ==
    (processed # None /\ processed # Returned(None)) =>
        stored[processed.value.path] \in {"original", "edited"}

\* Whether a local_images entry is that of the given images entry: the
\* same url, alt and title, is_thumbnail as the entry has it (false when
\* it has none), and a path.
LocalCopyOf(entry, img) ==
    /\ entry.url = img.url
    /\ entry.alt = img.alt
    /\ entry.title = img.title
    /\ entry.is_thumbnail = ("is_thumbnail" \in DOMAIN img /\ img.is_thumbnail)
    /\ entry.local_path # None

\* C30: in every returned record local_images is a subsequence of images,
\* entry by entry and in the same order; a record without url has no
\* content, no images and no local_images, and nothing was requested for
\* its unit.
C30_LocalImagesSubsequence ==
    (pc = "done" /\ IsList(ret)) =>
        /\ \A r \in 1..Len(ret.value) :
              LET imgs == ret.value[r].images
                  local == ret.value[r].local_images
              IN /\ \E kept \in SUBSET (1..Len(imgs)) :
                       /\ Cardinality(kept) = Len(local)
                       /\ \A k \in 1..Len(local) :
                             \E n \in kept :
                                /\ Cardinality({m \in kept : m <= n}) = k
                                /\ LocalCopyOf(local[k], imgs[n])
                 /\ ret.value[r].url = None =>
                       /\ ret.value[r].content = <<>>
                       /\ imgs = <<>>
                       /\ local = <<>>
        /\ \A n \in 1..Len(network) :
              network[n].op # "listing" => ArticleUrl(articles[network[n].unit]) # None
        /\ Len(Requests("article"))
              = Cardinality({r \in 1..Len(ret.value) : ret.value[r].url # None})

\* C30 witness: a returned list whose first record is of a unit with a
\* thumbnail and no link, and whose second has two images of which one
\* was downloaded.
C30_Witness ==
    /\ pc = "done" /\ IsList(ret)
    /\ Len(ret.value) = 2
    /\ ret.value[1].url = None /\ Thumbnail(articles[1]) # None
    /\ Len(ret.value[2].images) = 2
    /\ Len(ret.value[2].local_images) = 1

====
